---- MODULE Spec2Model ----
(***************************************************************************)
(* A model of the System.Decimal arithmetic core of                       *)
(* src/classlibnative/bcltype/decimal_calc.cpp (with decimal_calc.inl),    *)
(* in its 64-bit configuration: _TARGET_64BIT and _TARGET_AMD64_ defined,  *)
(* hence HAS_DIVMOD128BY64 defined and little-endian word layout.          *)
(*                                                                         *)
(* The code computes on uint32_t / uint64_t words and on word arrays of up *)
(* to 192 bits.  TLC's integers are 32-bit, so every unsigned value of the *)
(* code is held here as a natural number written in base 2^15, least       *)
(* significant limb first, with no leading zero limb (zero is << >>).      *)
(* Two such values are equal as numbers iff they are equal as sequences.   *)
(* Each word operation of the code is then stated on numbers, reduced      *)
(* modulo 2^32 or 2^64 exactly where the C type wraps.  Scales, loop       *)
(* indices and flags are small and stay plain integers.                    *)
(***************************************************************************)
EXTENDS Integers, Sequences, FiniteSets, TLC

\* A local of the code that is assigned once and read several times:
\* With(v, LAMBDA x : e) is e with x standing for the value v, as the
\* function x |-> e applied to v.
With(v, F(_)) == [x \in {v} |-> F(x)][v]

(***************************************************************************)
(* Unsigned arithmetic on numbers of any width.                            *)
(***************************************************************************)
Base == 2^15

RECURSIVE BitLenSmall(_)
BitLenSmall(x) == IF x = 0 THEN 0 ELSE 1 + BitLenSmall(x \div 2)

\* The number of bits of a limb.
LimbBits == BitLenSmall(Base) - 1

Limb(a, i) == IF i <= Len(a) THEN a[i] ELSE 0

RECURSIVE Norm(_)
Norm(a) ==
    IF a = << >> THEN a
    ELSE IF a[Len(a)] = 0 THEN Norm(SubSeq(a, 1, Len(a) - 1))
    ELSE a

\* A non-negative machine integer of the model as a number.
RECURSIVE Big(_)
Big(n) == IF n = 0 THEN << >> ELSE <<n % Base>> \o Big(n \div Base)

\* A number below 2^30 as a machine integer of the model.
ToInt(a) == Limb(a, 1) + Base * Limb(a, 2)

BigZero == << >>
BigOne == <<1>>
IsZero(a) == a = << >>

RECURSIVE AddRec(_, _, _, _)
AddRec(a, b, i, c) ==
    IF i > Len(a) /\ i > Len(b)
    THEN IF c = 0 THEN << >> ELSE <<c>>
    ELSE LET s == Limb(a, i) + Limb(b, i) + c
         IN  <<s % Base>> \o AddRec(a, b, i + 1, s \div Base)

BigAdd(a, b) == AddRec(a, b, 1, 0)

RECURSIVE CmpRec(_, _, _)
CmpRec(a, b, i) ==
    IF i = 0 THEN 0
    ELSE IF a[i] < b[i] THEN -1
    ELSE IF a[i] > b[i] THEN 1
    ELSE CmpRec(a, b, i - 1)

\* -1, 0 or 1 as a < b, a = b or a > b.
BigCmp(a, b) ==
    IF Len(a) < Len(b) THEN -1
    ELSE IF Len(a) > Len(b) THEN 1
    ELSE CmpRec(a, b, Len(a))

BigLt(a, b) == BigCmp(a, b) < 0
BigLe(a, b) == BigCmp(a, b) <= 0
BigGt(a, b) == BigCmp(a, b) > 0
BigGe(a, b) == BigCmp(a, b) >= 0

RECURSIVE SubRec(_, _, _, _)
SubRec(a, b, i, c) ==
    IF i > Len(a) THEN << >>
    ELSE LET d == a[i] - Limb(b, i) - c
         IN  IF d < 0 THEN <<d + Base>> \o SubRec(a, b, i + 1, 1)
             ELSE <<d>> \o SubRec(a, b, i + 1, 0)

\* a - b, for a >= b.
BigSub(a, b) == Norm(SubRec(a, b, 1, 0))

RECURSIVE MulSmallRec(_, _, _, _)
MulSmallRec(a, d, i, c) ==
    IF i > Len(a)
    THEN IF c = 0 THEN << >> ELSE <<c>>
    ELSE LET p == a[i] * d + c
         IN  <<p % Base>> \o MulSmallRec(a, d, i + 1, p \div Base)

\* a * d, for a machine integer d in 0..Base.
BigMulSmall(a, d) == IF d = 0 THEN << >> ELSE MulSmallRec(a, d, 1, 0)

Zeros(k) == [i \in 1..k |-> 0]
ShiftLimbs(a, k) == IF a = << >> THEN a ELSE Zeros(k) \o a

\* a * b[1..j] + acc * Base^j, from the limb b[j] down.
RECURSIVE MulRec(_, _, _, _)
MulRec(a, b, j, acc) ==
    IF j = 0 THEN acc
    ELSE With(BigAdd(BigMulSmall(a, b[j]), ShiftLimbs(acc, 1)), LAMBDA sum :
              MulRec(a, b, j - 1, sum))

BigMul(a, b) ==
    IF Len(a) >= Len(b) THEN MulRec(a, b, Len(b), << >>)
    ELSE MulRec(b, a, Len(a), << >>)

Reverse(s) == [i \in 1..Len(s) |-> s[Len(s) + 1 - i]]

\* Short division from the top limb down: the quotient limbs, most
\* significant first, followed by the remainder.
RECURSIVE DivSmallRec(_, _, _, _)
DivSmallRec(a, d, i, r) ==
    IF i = 0 THEN <<r>>
    ELSE LET t == r * Base + a[i]
         IN  <<t \div d>> \o DivSmallRec(a, d, i - 1, t % d)

\* <<a div d, a mod d>> for a machine integer d in 1..Base; the remainder
\* is a machine integer.
BigDivModSmall(a, d) ==
    With(DivSmallRec(a, d, Len(a), 0), LAMBDA out :
         <<Norm(Reverse(SubSeq(out, 1, Len(a)))), out[Len(a) + 1]>>)

\* a * 2^k, a div 2^k and a mod 2^k.
BigShl(a, k) == ShiftLimbs(BigMulSmall(a, 2^(k % LimbBits)), k \div LimbBits)
BigShr(a, k) ==
    LET n == k \div LimbBits
    IN  IF n >= Len(a) THEN << >>
        ELSE BigDivModSmall(SubSeq(a, n + 1, Len(a)), 2^(k % LimbBits))[1]
BigModP2(a, k) ==
    LET n == k \div LimbBits
    IN  IF n >= Len(a) THEN a
        ELSE Norm(SubSeq(a, 1, n) \o <<a[n + 1] % (2^(k % LimbBits))>>)

\* The number of bits of a: 0 for zero, else 1 + the index of the top set bit.
BitLen(a) == IF a = << >> THEN 0
             ELSE (Len(a) - 1) * LimbBits + BitLenSmall(a[Len(a)])

RECURSIVE OrSmall(_, _)
OrSmall(x, y) ==
    IF x = 0 THEN y
    ELSE IF y = 0 THEN x
    ELSE (IF x % 2 = 1 \/ y % 2 = 1 THEN 1 ELSE 0) + 2 * OrSmall(x \div 2, y \div 2)

\* Bitwise or.
BigOr(a, b) ==
    Norm([i \in 1..(IF Len(a) >= Len(b) THEN Len(a) ELSE Len(b)) |->
            OrSmall(Limb(a, i), Limb(b, i))])

\* Long division on limbs (Knuth's algorithm D): the divisor is shifted so
\* that its top limb has its top bit set, each quotient limb is estimated
\* from the top two limbs of the running remainder and lowered until it fits.
RECURSIVE FitQuot(_, _, _)
FitQuot(b, r, q) == IF BigGt(BigMulSmall(b, q), r) THEN FitQuot(b, r, q - 1) ELSE q

\* The quotient limb for the running remainder r1, and what it leaves of r1.
DivLimb(b, r1) ==
    LET est == (Limb(r1, Len(b) + 1) * Base + Limb(r1, Len(b))) \div b[Len(b)]
        q == IF BigLt(r1, b) THEN 0
             ELSE FitQuot(b, r1, IF est >= Base THEN Base - 1 ELSE est)
    IN  <<q, BigSub(r1, BigMulSmall(b, q))>>

\* The quotient limbs, most significant first, followed by the remainder.
RECURSIVE DivRec(_, _, _, _)
RECURSIVE DivRecNext(_, _, _, _)
DivRec(a, b, i, r) ==
    IF i = 0 THEN <<r>> ELSE DivRecNext(a, b, i, DivLimb(b, Norm(<<a[i]>> \o r)))

\* qr is the quotient limb at i and the remainder after it.
DivRecNext(a, b, i, qr) == <<qr[1]>> \o DivRec(a, b, i - 1, qr[2])

\* <<a div b, a mod b>> for b > 0.
BigDivMod(a, b) ==
    IF BigLt(a, b) THEN <<BigZero, a>>
    ELSE IF Len(b) = 1
    THEN With(BigDivModSmall(a, b[1]), LAMBDA qr : <<qr[1], Big(qr[2])>>)
    ELSE With(LimbBits - BitLenSmall(b[Len(b)]), LAMBDA s :
         With(BigShl(a, s), LAMBDA an :
         With(DivRec(an, BigShl(b, s), Len(an), << >>), LAMBDA out :
         <<Norm(Reverse(SubSeq(out, 1, Len(an)))),
           BigShr(out[Len(an) + 1], s)>>)))

IsOdd(a) == Limb(a, 1) % 2 = 1

\* A number written in decimal, four digits to a group, first group first:
\* Dec(<<1, 8446, 7440>>) is 184467440.
RECURSIVE DecRec(_, _)
DecRec(g, i) ==
    IF i = 0 THEN << >>
    ELSE BigAdd(BigMulSmall(DecRec(g, i - 1), 10000), Big(g[i]))

Dec(g) == DecRec(g, Len(g))

P2(k) == BigShl(BigOne, k)

(***************************************************************************)
(* Words.  A uint32_t is a number below 2^32, a uint64_t one below 2^64.   *)
(***************************************************************************)
W32 == P2(32)
W64 == P2(64)

low32(value) == BigModP2(value, 32)
hi32(value) == BigShr(value, 32)
\* The uint64_t whose halves are lo and hi.
Make64(lo, hi) == BigAdd(lo, BigShl(hi, 32))

FitsIn32Bit(value) == BigLt(value, W32)

AddCarry32(carry, lhs, rhs) ==
    With(BigAdd(BigAdd(lhs, rhs), Big(carry)), LAMBDA sum :
         [res |-> BigModP2(sum, 32), carry |-> ToInt(BigShr(sum, 32))])

AddCarry64(carry, lhs, rhs) ==
    With(BigAdd(BigAdd(lhs, rhs), Big(carry)), LAMBDA sum :
         [res |-> BigModP2(sum, 64), carry |-> ToInt(BigShr(sum, 64))])

\* SubBorrow32 borrowing also when the operands are equal.
SubBorrow32_OnEqual(carry, lhs, rhs) ==
    With(BigAdd(rhs, Big(carry)), LAMBDA sub :
         IF BigGt(lhs, sub) THEN [res |-> BigSub(lhs, sub), carry |-> 0]
         ELSE [res |-> BigModP2(BigSub(BigAdd(lhs, W32), sub), 32), carry |-> 1])

SubBorrow32(carry, lhs, rhs) ==
    With(BigAdd(rhs, Big(carry)), LAMBDA sub :
         IF BigGe(lhs, sub) THEN [res |-> BigSub(lhs, sub), carry |-> 0]
         ELSE [res |-> BigSub(BigAdd(lhs, W32), sub), carry |-> 1])

SubBorrow64(carry, lhs, rhs) ==
    With(BigAdd(rhs, Big(carry)), LAMBDA sub :
         IF BigGe(lhs, sub) THEN [res |-> BigSub(lhs, sub), carry |-> 0]
         ELSE [res |-> BigSub(BigAdd(lhs, W64), sub), carry |-> 1])

\* AddCarry64 as each build compiles it: the _addcarry_u64 intrinsic, the
\* __builtin_addcll of clang, the 128-bit sum where __SIZEOF_INT128__ is
\* defined, which stores (uint32_t)sum, and the pair of AddCarry32.
AddCarry64Variant(variant, carry, lhs, rhs) ==
    IF variant \in {"intrinsic", "builtin"} THEN AddCarry64(carry, lhs, rhs)
    ELSE IF variant = "int128"
    THEN With(BigAdd(BigAdd(Big(carry), lhs), rhs), LAMBDA sum :
              [res |-> BigModP2(sum, 32),
               carry |-> ToInt(BigModP2(BigShr(sum, 64), 8))])
    ELSE With(AddCarry32(carry, low32(lhs), low32(rhs)), LAMBDA lo :
         With(AddCarry32(lo.carry, hi32(lhs), hi32(rhs)), LAMBDA hi :
              [res |-> Make64(lo.res, hi.res), carry |-> hi.carry]))

\* SubBorrow64 as each build compiles it: _subborrow_u64, __builtin_subcll,
\* the 128-bit difference, which stores (uint32_t)res, and the pair of
\* SubBorrow32.
SubBorrow64Variant(variant, carry, lhs, rhs) ==
    IF variant \in {"intrinsic", "builtin"} THEN SubBorrow64(carry, lhs, rhs)
    ELSE IF variant = "int128"
    THEN With(BigModP2(BigSub(BigAdd(lhs, P2(128)), BigAdd(rhs, Big(carry))), 128),
              LAMBDA res :
              [res |-> BigModP2(res, 32),
               carry |-> ToInt(BigModP2(BigShr(res, 64), 8)) % 2])
    ELSE With(SubBorrow32(carry, low32(lhs), low32(rhs)), LAMBDA lo :
         With(SubBorrow32(lo.carry, hi32(lhs), hi32(rhs)), LAMBDA hi :
              [res |-> Make64(lo.res, hi.res), carry |-> hi.carry]))

Mul32By32(lhs, rhs) == BigMul(lhs, rhs)

\* The low 64 bits of the product and, as hi, the next 32.
Mul64By32(lhs, rhs) ==
    With(BigMul(lhs, rhs), LAMBDA res :
         [lo |-> BigModP2(res, 64), hi |-> low32(BigShr(res, 64))])

\* The low and the high 64 bits of the product.
Mul64By64(lhs, rhs) ==
    With(BigMul(lhs, rhs), LAMBDA res :
         [lo |-> BigModP2(res, 64), hi |-> BigShr(res, 64)])

DivMod32By32(ulNum, ulDen) ==
    With(BigDivMod(ulNum, ulDen), LAMBDA qr : [quo |-> qr[1], rem |-> qr[2]])

DivMod64By64(ullNum, ullDen) ==
    With(BigDivMod(ullNum, ullDen), LAMBDA qr : [quo |-> qr[1], rem |-> qr[2]])

\* The div instruction on edx:eax.  It raises a divide error when the
\* quotient does not fit 32 bits, that is, unless hi < ulDen: fault is then
\* TRUE and no quotient exists.
DivMod64By32(lo, hi, ulDen) ==
    IF BigGe(hi, ulDen) THEN [quo |-> BigZero, rem |-> BigZero, fault |-> TRUE]
    ELSE With(BigDivMod(Make64(lo, hi), ulDen), LAMBDA qr :
              [quo |-> qr[1], rem |-> qr[2], fault |-> FALSE])

\* The div instruction on rdx:rax, with the same divide error.
DivMod128By64(lo, hi, ulDen) ==
    IF BigGe(hi, ulDen) THEN [quo |-> BigZero, rem |-> BigZero, fault |-> TRUE]
    ELSE With(BigDivMod(BigAdd(lo, BigShl(hi, 64)), ulDen), LAMBDA qr :
              [quo |-> qr[1], rem |-> qr[2], fault |-> FALSE])

\* The index of the most significant set bit of a non-zero Mask.
BitScanMsb32(Mask) == BitLen(Mask) - 1
BitScanMsb64(Mask) == BitLen(Mask) - 1

(***************************************************************************)
(* Constants of decimal_calc.cpp.                                          *)
(***************************************************************************)
DEC_SCALE_MAX == 28
POWER10_MAX64 == 19
POWER10_MAX32 == 9

\* 10^i, nine digits at a time.
RECURSIVE Pow10(_)
Pow10(i) == IF i <= 9 THEN Big(10^i) ELSE BigMul(Big(10^9), Pow10(i - 9))

\* rgulPower10_64[i] of the code is rgulPower10_64[i + 1] here.
rgulPower10_64 == [i \in 1..(POWER10_MAX64 + 1) |-> Pow10(i - 1)]
POWER10_MAX_VALUE64 == rgulPower10_64[POWER10_MAX64 + 1]
POWER10_MAX_VALUE32 == low32(rgulPower10_64[POWER10_MAX32 + 1])

\* Add96By32 that reports no carry.
Add96By32_NoCarry(pllVal, value) ==
    With(AddCarry64(0, pllVal[1], value), LAMBDA a :
    With(AddCarry32(a.carry, low32(pllVal[2]), BigZero), LAMBDA b :
         [res |-> [pllVal EXCEPT ![1] = a.res,
                                 ![2] = Make64(b.res, hi32(pllVal[2]))],
          carry |-> 0]))

\* Add96By32 on a uint64_t array: the carry out of bit 96.  The high half
\* of the second word is left as it is.
Add96By32(pllVal, value) ==
    With(AddCarry64(0, pllVal[1], value), LAMBDA a :
    With(AddCarry32(a.carry, low32(pllVal[2]), BigZero), LAMBDA b :
         [res |-> [pllVal EXCEPT ![1] = a.res,
                                 ![2] = Make64(b.res, hi32(pllVal[2]))],
          carry |-> b.carry]))

(***************************************************************************)
(* ReduceScale and ScaleResult.  A uint64_t array of the code is a         *)
(* sequence of words here: rgullRes[i] of the code is rgullRes[i + 1].     *)
(***************************************************************************)

\* The while loop of ReduceScale: both halves of each remaining word are
\* divided by ulDen, the remainder running down.
RECURSIVE ReduceScaleLoop(_, _, _, _)
ReduceScaleLoop(rgullRes, iCur, ulRemainder, ulDen) ==
    IF iCur < 0 THEN [res |-> rgullRes, rem |-> ulRemainder]
    ELSE With(DivMod64By32(hi32(rgullRes[iCur + 1]), ulRemainder, ulDen),
              LAMBDA h :
         With(DivMod64By32(low32(rgullRes[iCur + 1]), h.rem, ulDen),
              LAMBDA l :
         ReduceScaleLoop([rgullRes EXCEPT ![iCur + 1] = Make64(l.quo, h.quo)],
                         iCur - 1, l.rem, ulDen)))

\* The array divided in place by 10^iNewScale, at most 10^POWER10_MAX32:
\* the new array, iHiRes and iNewScale, the divisor used and the remainder.
ReduceScale(rgullRes, iHiRes, iNewScale) ==
    With(IF iNewScale < POWER10_MAX32
         THEN low32(rgulPower10_64[iNewScale + 1])
         ELSE POWER10_MAX_VALUE32, LAMBDA ulDen :
    With(rgullRes[iHiRes + 1], LAMBDA top :
    With(BigLt(hi32(top), ulDen), LAMBDA below :
    With(IsZero(hi32(top)) /\ BigLt(low32(top), ulDen), LAMBDA small :
    With(IF ~below
         THEN [res |-> rgullRes, rem |-> BigZero, iCur |-> iHiRes]
         ELSE IF small
         THEN [res |-> [rgullRes EXCEPT ![iHiRes + 1] = BigZero],
               rem |-> low32(top), iCur |-> iHiRes - 1]
         ELSE With(DivMod64By32(low32(top), hi32(top), ulDen), LAMBDA d :
                   [res |-> [rgullRes EXCEPT ![iHiRes + 1] = d.quo],
                    rem |-> d.rem, iCur |-> iHiRes - 1]), LAMBDA first :
    With(ReduceScaleLoop(first.res, first.iCur, first.rem, ulDen), LAMBDA rest :
         [res |-> rest.res,
          iHiRes |-> IF below /\ small /\ iHiRes > 0 THEN iHiRes - 1 ELSE iHiRes,
          ulDen |-> ulDen,
          iNewScale |-> iNewScale - POWER10_MAX32,
          ulRemainder |-> rest.rem]))))))

\* ScaleEstimate without its lower limit iScale - DEC_SCALE_MAX: the scale
\* left may then exceed DEC_SCALE_MAX.
ScaleEstimate_NoClamp(rgullRes, iHiRes, iScale) ==
    LET ulMsb == BitScanMsb64(rgullRes[iHiRes + 1])
        bits  == iHiRes * 64 + ulMsb - 96
        est   == IF bits >= 0 THEN ((bits * 77) \div 256) + 1 ELSE 0
    IN  IF est > iScale THEN -1 ELSE est

\* ScaleEstimate giving up as soon as the estimate reaches iScale, where the
\* code gives up only when it exceeds it.
ScaleEstimate_Strict(rgullRes, iHiRes, iScale) ==
    LET ulMsb == BitScanMsb64(rgullRes[iHiRes + 1])
        bits  == iHiRes * 64 + ulMsb - 96
        est   == IF bits >= 0 THEN ((bits * 77) \div 256) + 1 ELSE 0
    IN  IF est >= iScale THEN -1
        ELSE IF est < iScale - DEC_SCALE_MAX THEN iScale - DEC_SCALE_MAX
        ELSE est

\* ScaleEstimate with 78/256 for log10(2), which is above it.
ScaleEstimate_Above(rgullRes, iHiRes, iScale) ==
    LET ulMsb == BitScanMsb64(rgullRes[iHiRes + 1])
        bits  == iHiRes * 64 + ulMsb - 96
        est   == IF bits >= 0 THEN ((bits * 78) \div 256) + 1 ELSE 0
    IN  IF est > iScale THEN -1
        ELSE IF est < iScale - DEC_SCALE_MAX THEN iScale - DEC_SCALE_MAX
        ELSE est

\* The scale ScaleResult first plans to remove: a power of ten that brings
\* the value near 96 bits (-1 when that exceeds iScale), and at least
\* iScale - DEC_SCALE_MAX.
ScaleEstimate(rgullRes, iHiRes, iScale) ==
    LET ulMsb == BitScanMsb64(rgullRes[iHiRes + 1])
        bits  == iHiRes * 64 + ulMsb - 96
        est   == IF bits >= 0 THEN ((bits * 77) \div 256) + 1 ELSE 0
    IN  IF est > iScale THEN -1
        ELSE IF est < iScale - DEC_SCALE_MAX THEN iScale - DEC_SCALE_MAX
        ELSE est

\* One pass of the for (;;) loop of ScaleResult and all that follow it.
RECURSIVE ScaleResultLoop(_, _, _, _, _, _)
ScaleResultLoop(rgullRes, iHiRes, iScale, iNewScale, ulSticky, ulRemainder) ==
    With(BigOr(ulSticky, ulRemainder), LAMBDA sticky :
    With(ReduceScale(rgullRes, iHiRes, iNewScale), LAMBDA rs :
    With(BigShr(rs.ulDen, 1), LAMBDA ulPwr :
    With(\/ BigGt(rs.ulRemainder, ulPwr)
         \/ /\ rs.ulRemainder = ulPwr
            /\ (IsOdd(rs.res[1]) \/ ~IsZero(sticky)), LAMBDA up :
    With(Add96By32(rs.res, BigOne), LAMBDA add :
        IF rs.iNewScale > 0
        THEN ScaleResultLoop(rs.res, rs.iHiRes, iScale, rs.iNewScale,
                             sticky, rs.ulRemainder)
        ELSE IF rs.iHiRes > 1 \/ ~IsZero(hi32(rs.res[2]))
        THEN ScaleResultLoop(rs.res, rs.iHiRes, iScale - 1, 1,
                             sticky, rs.ulRemainder)
        ELSE IF up /\ add.carry # 0
        THEN ScaleResultLoop([add.res EXCEPT ![2] = Make64(low32(@), BigOne)],
                             rs.iHiRes, iScale - 1, 1, BigZero, BigZero)
        ELSE [iScale |-> IF iScale < 0 THEN -1 ELSE iScale,
              res |-> IF up THEN add.res ELSE rs.res])))))

\* The new scale, -1 on overflow, and the array scaled to 96 bits.
ScaleResult(rgullRes, iHiRes, iScale) ==
    With(ScaleEstimate(rgullRes, iHiRes, iScale), LAMBDA iNewScale :
        IF iNewScale = -1 THEN [iScale |-> -1, res |-> rgullRes]
        ELSE IF iNewScale # 0
        THEN ScaleResultLoop(rgullRes, iHiRes, iScale - iNewScale, iNewScale,
                             BigZero, BigZero)
        ELSE [iScale |-> iScale, res |-> rgullRes])

(***************************************************************************)
(* DECIMAL: wReserved, scale, sign (0 or DECIMAL_NEG), Hi32 and Lo64.      *)
(* Every operation returns its HRESULT as hr and, as res, what the         *)
(* caller's result slot holds on return, given what it held at the call.   *)
(***************************************************************************)
DECIMAL_NEG == 128

RECURSIVE XorSmall(_, _)
XorSmall(x, y) ==
    IF x = 0 THEN y
    ELSE IF y = 0 THEN x
    ELSE ((x + y) % 2) + 2 * XorSmall(x \div 2, y \div 2)

RECURSIVE AndSmall(_, _)
AndSmall(x, y) ==
    IF x = 0 \/ y = 0 THEN 0
    ELSE ((x % 2) * (y % 2)) + 2 * AndSmall(x \div 2, y \div 2)

mid32(dec) == hi32(dec.Lo64)

\* memset(&dec, 0, sizeof(DECIMAL))
DECIMAL_SETZERO ==
    [wReserved |-> 0, scale |-> 0, sign |-> 0, Hi32 |-> BigZero, Lo64 |-> BigZero]

\* ResultSign taking the sign of the left operand alone.
ResultSign_Left(pdecL, pdecR) == pdecL.sign

\* The sign DecimalMul and DecimalDiv give the result.
ResultSign(pdecL, pdecR) == XorSmall(pdecL.sign, pdecR.sign)

\* MulFast rounding a tie up, where the code rounds it to even.
MulFast_HalfUp(lo, iScale) ==
    IF iScale > DEC_SCALE_MAX
    THEN IF iScale - DEC_SCALE_MAX > POWER10_MAX64
         THEN [zero |-> TRUE, lo |-> BigZero, iScale |-> 0]
         ELSE With(rgulPower10_64[iScale - DEC_SCALE_MAX + 1], LAMBDA ullPwr :
              With(DivMod64By64(lo, ullPwr), LAMBDA d :
              With(BigShr(ullPwr, 1), LAMBDA half :
                   [zero |-> FALSE,
                    lo |-> IF BigGe(d.rem, half)
                           THEN BigModP2(BigAdd(d.quo, BigOne), 64) ELSE d.quo,
                    iScale |-> DEC_SCALE_MAX])))
    ELSE [zero |-> FALSE, lo |-> lo, iScale |-> iScale]

\* The fast path of DecimalMul once the product lo fits 64 bits: the
\* mantissa and scale to store, or zero set for the ReturnZero exit.
MulFast(lo, iScale) ==
    IF iScale > DEC_SCALE_MAX
    THEN IF iScale - DEC_SCALE_MAX > POWER10_MAX64
         THEN [zero |-> TRUE, lo |-> BigZero, iScale |-> 0]
         ELSE With(rgulPower10_64[iScale - DEC_SCALE_MAX + 1], LAMBDA ullPwr :
              With(DivMod64By64(lo, ullPwr), LAMBDA d :
              With(BigShr(ullPwr, 1), LAMBDA half :
                   [zero |-> FALSE,
                    lo |-> IF BigGt(d.rem, half) \/ (d.rem = half /\ IsOdd(d.quo))
                           THEN BigModP2(BigAdd(d.quo, BigOne), 64) ELSE d.quo,
                    iScale |-> DEC_SCALE_MAX])))
    ELSE [zero |-> FALSE, lo |-> lo, iScale |-> iScale]

\* MulProd without the cross product of pdecR's low words and pdecL's high
\* word.
MulProd_NoCross(pdecL, pdecR) ==
    With(Mul64By64(pdecL.Lo64, pdecR.Lo64), LAMBDA p0 :
    With(Mul64By32(pdecL.Lo64, pdecR.Hi32), LAMBDA m1 :
    With(AddCarry64(0, m1.lo, p0.hi), LAMBDA s1 :
    With(AddCarry64(s1.carry, m1.hi, Mul32By32(pdecL.Hi32, pdecR.Hi32)),
         LAMBDA t1 :
         <<p0.lo, s1.res, t1.res>>))))

\* The 192-bit product of the slow path of DecimalMul, as rgulProd.
MulProd(pdecL, pdecR) ==
    With(Mul64By64(pdecL.Lo64, pdecR.Lo64), LAMBDA p0 :
    With(Mul64By32(pdecL.Lo64, pdecR.Hi32), LAMBDA m1 :
    With(AddCarry64(0, m1.lo, p0.hi), LAMBDA s1 :
    With(AddCarry64(s1.carry, m1.hi, Mul32By32(pdecL.Hi32, pdecR.Hi32)),
         LAMBDA t1 :
    With(Mul64By32(pdecR.Lo64, pdecL.Hi32), LAMBDA m2 :
    With(AddCarry64(0, m2.lo, s1.res), LAMBDA s2 :
         <<p0.lo, s2.res, AddCarry64(s2.carry, m2.hi, t1.res).res>>))))))

\* The index of the last non-zero word of rgulProd, -1 when all are zero.
HiProd(rgulProd) ==
    IF ~IsZero(rgulProd[3]) THEN 2
    ELSE IF ~IsZero(rgulProd[2]) THEN 1
    ELSE IF ~IsZero(rgulProd[1]) THEN 0
    ELSE -1

DecimalMul(pdecL, pdecR, pRes) ==
    LET iScale == pdecL.scale + pdecR.scale
        \* The stores into pRes before return NOERROR.
        Done(lo64, h32, sc) ==
            [hr |-> "NOERROR",
             res |-> [pRes EXCEPT !.Lo64 = lo64, !.Hi32 = h32,
                                  !.sign = ResultSign(pdecL, pdecR),
                                  !.scale = sc % 256]]
        ReturnZero == [hr |-> "NOERROR", res |-> DECIMAL_SETZERO]
        Overflow == [hr |-> "DISP_E_OVERFLOW", res |-> pRes]
        \* What follows ScaleResult.
        Scaled(sr) ==
            IF sr.iScale = -1 THEN Overflow
            ELSE Done(sr.res[1], low32(sr.res[2]), sr.iScale)
        Fast(fast) ==
            IF fast.zero THEN ReturnZero ELSE Done(fast.lo, BigZero, fast.iScale)
        Slow(rgulProd, iHiProd) ==
            IF iHiProd < 0 THEN ReturnZero
            ELSE Scaled(ScaleResult(rgulProd, iHiProd, iScale))
    IN  IF IsZero(BigOr(pdecL.Hi32, pdecR.Hi32))
        THEN With(Mul64By64(pdecL.Lo64, pdecR.Lo64), LAMBDA p :
                  IF IsZero(p.hi) THEN Fast(MulFast(p.lo, iScale))
                  ELSE Scaled(ScaleResult(<<p.lo, p.hi>>, 1, iScale)))
        ELSE With(MulProd(pdecL, pdecR), LAMBDA rgulProd :
                  Slow(rgulProd, HiProd(rgulProd)))

(***************************************************************************)
(* DecimalAddSub                                                           *)
(***************************************************************************)

\* Add96By64 on a DECIMAL: the carry out of bit 96.
Add96By64(pDec, value) ==
    With(AddCarry64(0, pDec.Lo64, value), LAMBDA a :
    With(AddCarry32(a.carry, pDec.Hi32, BigZero), LAMBDA b :
         [res |-> [pDec EXCEPT !.Lo64 = a.res, !.Hi32 = b.res],
          carry |-> b.carry]))

\* The SignFlip label: the 96 bits negated, the sign flipped.
SignFlip(pdecRes) ==
    With(BigModP2(BigSub(W64, pdecRes.Lo64), 64), LAMBDA lo :
    With(BigSub(BigSub(W32, BigOne), pdecRes.Hi32), LAMBDA nh :
         [pdecRes EXCEPT !.Lo64 = lo,
                         !.Hi32 = IF IsZero(lo) THEN BigModP2(BigAdd(nh, BigOne), 32)
                                  ELSE nh,
                         !.sign = XorSmall(@, DECIMAL_NEG)]))

\* CarryDiv10 dividing the low 96 bits alone: the carry out of bit 96 is
\* not brought into the division.
CarryDiv10_NoCarry(pdecRes) ==
    With(DivMod64By32(pdecRes.Hi32, BigZero, Big(10)), LAMBDA h :
    With(DivMod64By32(mid32(pdecRes), h.rem, Big(10)), LAMBDA m :
    With(DivMod64By32(low32(pdecRes.Lo64), m.rem, Big(10)), LAMBDA l :
    With([pdecRes EXCEPT !.scale = @ - 1, !.Hi32 = h.quo,
                         !.Lo64 = Make64(l.quo, m.quo)], LAMBDA q :
    With(ToInt(l.rem), LAMBDA remainder :
         IF remainder >= 5 /\ (remainder > 5 \/ IsOdd(l.quo))
         THEN Add96By64(q, BigOne).res
         ELSE q)))))

\* The sum that carried out of 96 bits, divided by ten and rounded to even.
CarryDiv10(pdecRes) ==
    With(DivMod64By32(pdecRes.Hi32, BigOne, Big(10)), LAMBDA h :
    With(DivMod64By32(mid32(pdecRes), h.rem, Big(10)), LAMBDA m :
    With(DivMod64By32(low32(pdecRes.Lo64), m.rem, Big(10)), LAMBDA l :
    With([pdecRes EXCEPT !.scale = @ - 1, !.Hi32 = h.quo,
                         !.Lo64 = Make64(l.quo, m.quo)], LAMBDA q :
    With(ToInt(l.rem), LAMBDA remainder :
         IF remainder >= 5 /\ (remainder > 5 \/ IsOdd(l.quo))
         THEN Add96By64(q, BigOne).res
         ELSE q)))))

\* From the AlignedAdd label on: pdecL and pdecR have one scale, pdecRes
\* holds the sign and scale of the result.
AlignedAdd(pdecL, pdecR, pdecRes, bSign) ==
    IF bSign # 0
    THEN With(SubBorrow64(0, pdecL.Lo64, pdecR.Lo64), LAMBDA s1 :
         With(SubBorrow32(s1.carry, pdecL.Hi32, pdecR.Hi32), LAMBDA s2 :
         With([pdecRes EXCEPT !.Lo64 = s1.res, !.Hi32 = s2.res], LAMBDA sub :
              [hr |-> "NOERROR",
               res |-> IF s2.carry # 0 THEN SignFlip(sub) ELSE sub])))
    ELSE With(AddCarry64(0, pdecL.Lo64, pdecR.Lo64), LAMBDA a1 :
         With(AddCarry32(a1.carry, pdecL.Hi32, pdecR.Hi32), LAMBDA a2 :
         With([pdecRes EXCEPT !.Lo64 = a1.res, !.Hi32 = a2.res], LAMBDA add :
              IF a2.carry = 0 THEN [hr |-> "NOERROR", res |-> add]
              ELSE IF add.scale = 0 THEN [hr |-> "DISP_E_OVERFLOW", res |-> add]
              ELSE [hr |-> "NOERROR", res |-> CarryDiv10(add)])))

\* The inner for loop of the scaling loop, from word iCur up to iHiProd.
RECURSIVE ScaleUpWords(_, _, _, _, _, _)
ScaleUpWords(rgullNum, iCur, iHiProd, ullPwr, mul_carry, add_carry) ==
    IF iCur > iHiProd
    THEN [num |-> rgullNum, mul_carry |-> mul_carry, add_carry |-> add_carry]
    ELSE With(Mul64By64(ullPwr, rgullNum[iCur + 1]), LAMBDA product :
         With(AddCarry64(add_carry, mul_carry, product.lo), LAMBDA sum :
         ScaleUpWords([rgullNum EXCEPT ![iCur + 1] = sum.res], iCur + 1,
                      iHiProd, ullPwr, product.hi, sum.carry)))

\* The scaling loop: rgullNum times 10^iScale, up to 10^19 at a time.
RECURSIVE ScaleUp(_, _, _)
ScaleUp(rgullNum, iHiProd, iScale) ==
    IF iScale <= 0 THEN [num |-> rgullNum, iHiProd |-> iHiProd]
    ELSE With(IF iScale >= POWER10_MAX64 THEN POWER10_MAX_VALUE64
              ELSE rgulPower10_64[iScale + 1], LAMBDA ullPwr :
         With(Mul64By64(ullPwr, rgullNum[1]), LAMBDA m0 :
         With(ScaleUpWords([rgullNum EXCEPT ![1] = m0.lo], 1, iHiProd,
                           ullPwr, m0.hi, 0), LAMBDA w :
             IF ~IsZero(w.mul_carry) \/ w.add_carry # 0
             THEN ScaleUp([w.num EXCEPT ![iHiProd + 2] =
                              AddCarry64(w.add_carry, w.mul_carry, BigZero).res],
                          iHiProd + 1, iScale - POWER10_MAX64)
             ELSE ScaleUp(w.num, iHiProd, iScale - POWER10_MAX64))))

\* AddSubFinish scaling back only a value of more than two words: a sum of
\* 97 to 128 bits is returned cut to its low 96 bits.
AddSubFinish_LongOnly(rgullNum, iHiProd, pdecRes) ==
    IF iHiProd > 1
    THEN With(ScaleResult([rgullNum EXCEPT ![1] = pdecRes.Lo64], iHiProd,
                          pdecRes.scale), LAMBDA sr :
             IF sr.iScale % 256 = 255
             THEN [hr |-> "DISP_E_OVERFLOW",
                   res |-> [pdecRes EXCEPT !.scale = 255]]
             ELSE [hr |-> "NOERROR",
                   res |-> [pdecRes EXCEPT !.scale = sr.iScale % 256,
                                           !.Lo64 = sr.res[1],
                                           !.Hi32 = low32(sr.res[2])]])
    ELSE [hr |-> "NOERROR", res |-> pdecRes]

\* AddSubFinish returning on overflow before it stores what ScaleResult
\* returned: the scale in the result slot stays that of the operands.
AddSubFinish_ScaleKept(rgullNum, iHiProd, pdecRes) ==
    IF iHiProd > 1 \/ (iHiProd = 1 /\ ~FitsIn32Bit(rgullNum[2]))
    THEN With(ScaleResult([rgullNum EXCEPT ![1] = pdecRes.Lo64], iHiProd,
                          pdecRes.scale), LAMBDA sr :
             IF sr.iScale % 256 = 255
             THEN [hr |-> "DISP_E_OVERFLOW", res |-> pdecRes]
             ELSE [hr |-> "NOERROR",
                   res |-> [pdecRes EXCEPT !.scale = sr.iScale % 256,
                                           !.Lo64 = sr.res[1],
                                           !.Hi32 = low32(sr.res[2])]])
    ELSE [hr |-> "NOERROR", res |-> pdecRes]

\* The end of the unequal-scale branch: the value in rgullNum (its low 96
\* bits also in pdecRes) is scaled back to 96 bits when it is longer.
AddSubFinish(rgullNum, iHiProd, pdecRes) ==
    IF iHiProd > 1 \/ (iHiProd = 1 /\ ~FitsIn32Bit(rgullNum[2]))
    THEN With(ScaleResult([rgullNum EXCEPT ![1] = pdecRes.Lo64], iHiProd,
                          pdecRes.scale), LAMBDA sr :
             IF sr.iScale % 256 = 255
             THEN [hr |-> "DISP_E_OVERFLOW",
                   res |-> [pdecRes EXCEPT !.scale = 255]]
             ELSE [hr |-> "NOERROR",
                   res |-> [pdecRes EXCEPT !.scale = sr.iScale % 256,
                                           !.Lo64 = sr.res[1],
                                           !.Hi32 = low32(sr.res[2])]])
    ELSE [hr |-> "NOERROR", res |-> pdecRes]

\* "Scaling complete, do the add": rgullNum is pdecL scaled to the scale of
\* pdecR, iHiProd the index of its last non-zero word.
UnalignedAdd(rgullNum, iHiProd, pdecR, pdecRes, bSign) ==
    IF bSign # 0
    THEN With(SubBorrow64(0, rgullNum[1], pdecR.Lo64), LAMBDA s1 :
         With(SubBorrow64(s1.carry, rgullNum[2], pdecR.Hi32), LAMBDA s2 :
         With([pdecRes EXCEPT !.Lo64 = s1.res, !.Hi32 = low32(s2.res)],
              LAMBDA sub :
         With([rgullNum EXCEPT ![2] = s2.res], LAMBDA subNum :
         With(IF s2.carry # 0 /\ iHiProd > 1
              THEN BigModP2(BigAdd(rgullNum[3], BigSub(W64, BigOne)), 64)
              ELSE BigZero, LAMBDA dec2 :
         With(IF s2.carry = 0 THEN [num |-> subNum, iHiProd |-> iHiProd]
              ELSE IF iHiProd <= 1 THEN [num |-> subNum, iHiProd |-> -1]
              ELSE [num |-> [subNum EXCEPT ![3] = dec2],
                    iHiProd |-> IF IsZero(dec2) THEN 1 ELSE iHiProd],
              LAMBDA n :
              IF n.iHiProd < 0 THEN [hr |-> "NOERROR", res |-> SignFlip(sub)]
              ELSE AddSubFinish(n.num, n.iHiProd, sub)))))))
    ELSE With(AddCarry64(0, rgullNum[1], pdecR.Lo64), LAMBDA a1 :
         With(AddCarry64(a1.carry, rgullNum[2], pdecR.Hi32), LAMBDA a2 :
         With([pdecRes EXCEPT !.Lo64 = a1.res, !.Hi32 = low32(a2.res)],
              LAMBDA add :
         With([rgullNum EXCEPT ![2] = a2.res], LAMBDA addNum :
         With(IF a2.carry = 0 THEN [num |-> addNum, iHiProd |-> iHiProd]
              ELSE IF iHiProd < 2
              THEN [num |-> [addNum EXCEPT ![3] = BigOne], iHiProd |-> 2]
              ELSE [num |-> [addNum EXCEPT ![3] =
                               BigModP2(BigAdd(rgullNum[3], BigOne), 64)],
                    iHiProd |-> iHiProd],
              LAMBDA n :
              AddSubFinish(n.num, n.iHiProd, add))))))

\* ScaleUp64 scaling the low 64 bits of pdecL alone.
ScaleUp64_LowOnly(pdecL, iScale) ==
    With(rgulPower10_64[iScale + 1], LAMBDA ullPwr :
    With(Mul64By64(pdecL.Lo64, ullPwr), LAMBDA m0 :
         <<m0.lo, m0.hi, BigZero>>))

\* pdecL times 10^iScale for iScale <= POWER10_MAX64, as three words.
ScaleUp64(pdecL, iScale) ==
    With(rgulPower10_64[iScale + 1], LAMBDA ullPwr :
    With(Mul64By64(pdecL.Lo64, ullPwr), LAMBDA m0 :
    With(Mul64By64(pdecL.Hi32, ullPwr), LAMBDA m1 :
    With(AddCarry64(0, m1.lo, m0.hi), LAMBDA a :
         <<m0.lo, a.res, AddCarry64(a.carry, m1.hi, BigZero).res>>))))

\* The unequal-scale branch after the operands are put in order: pdecL has
\* the smaller scale and is scaled up by 10^iScale.  The third word of
\* rgullNum is not initialized by the code until a carry reaches it; it is
\* not read before that, and is zero here.
AddSubScaled(pdecL, pdecR, pdecRes, bSign, iScale) ==
    IF iScale <= POWER10_MAX64
    THEN With(ScaleUp64(pdecL, iScale), LAMBDA num64 :
             IF IsZero(num64[3]) /\ FitsIn32Bit(num64[2])
             THEN AlignedAdd([pdecL EXCEPT !.Lo64 = num64[1],
                                           !.Hi32 = low32(num64[2])],
                             pdecR, pdecRes, bSign)
             ELSE UnalignedAdd(num64, IF ~IsZero(num64[3]) THEN 2 ELSE 1,
                               pdecR, pdecRes, bSign))
    ELSE IF IsZero(pdecL.Hi32) /\ IsZero(pdecL.Lo64)
    THEN [hr |-> "NOERROR",
          res |-> [pdecRes EXCEPT !.Lo64 = pdecR.Lo64, !.Hi32 = pdecR.Hi32,
                                  !.sign = XorSmall(@, bSign)]]
    ELSE With(ScaleUp(<<pdecL.Lo64, pdecL.Hi32, BigZero>>,
                      IF IsZero(pdecL.Hi32) THEN 0 ELSE 1, iScale), LAMBDA up :
              UnalignedAdd(up.num, up.iHiProd, pdecR, pdecRes, bSign))

\* DecimalAddSub giving the result the sign of pdecL also when it has
\* exchanged the operands.
DecimalAddSub_LeftSign(pdecL, pdecR, pdecRes, bSign0) ==
    With(XorSmall(bSign0, AndSmall(XorSmall(pdecR.sign, pdecL.sign), DECIMAL_NEG)),
         LAMBDA bSign :
    With(pdecR.scale - pdecL.scale, LAMBDA iScale :
        IF iScale = 0
        THEN AlignedAdd(pdecL, pdecR,
                        [pdecRes EXCEPT !.sign = pdecL.sign, !.scale = pdecL.scale],
                        bSign)
        ELSE With(IF iScale < 0
                  THEN [l |-> pdecR, r |-> pdecL, iScale |-> -iScale,
                        res |-> [pdecRes EXCEPT !.scale = pdecL.scale,
                                                !.sign = pdecL.sign]]
                  ELSE [l |-> pdecL, r |-> pdecR, iScale |-> iScale,
                        res |-> [pdecRes EXCEPT !.scale = pdecR.scale,
                                                !.sign = pdecL.sign]],
                  LAMBDA o :
                  AddSubScaled(o.l, o.r, o.res, bSign, o.iScale))))

DecimalAddSub(pdecL, pdecR, pdecRes, bSign0) ==
    With(XorSmall(bSign0, AndSmall(XorSmall(pdecR.sign, pdecL.sign), DECIMAL_NEG)),
         LAMBDA bSign :
    With(pdecR.scale - pdecL.scale, LAMBDA iScale :
        IF iScale = 0
        THEN AlignedAdd(pdecL, pdecR,
                        [pdecRes EXCEPT !.sign = pdecL.sign, !.scale = pdecL.scale],
                        bSign)
        ELSE With(IF iScale < 0
                  THEN [l |-> pdecR, r |-> pdecL, iScale |-> -iScale,
                        res |-> [pdecRes EXCEPT !.scale = pdecL.scale,
                                                !.sign = XorSmall(pdecL.sign, bSign)]]
                  ELSE [l |-> pdecL, r |-> pdecR, iScale |-> iScale,
                        res |-> [pdecRes EXCEPT !.scale = pdecR.scale,
                                                !.sign = pdecL.sign]],
                  LAMBDA o :
                  AddSubScaled(o.l, o.r, o.res, bSign, o.iScale))))

\* DecimalSub passing the sign of an addition.
DecimalSub_AsAdd(l, r, res) == DecimalAddSub(l, r, res, 0)

DecimalAdd(l, r, res) == DecimalAddSub(l, r, res, 0)
DecimalSub(l, r, res) == DecimalAddSub(l, r, res, DECIMAL_NEG)

(***************************************************************************)
(* Division.  DecimalDiv works on uint32_t arrays that it also reads and   *)
(* writes as uint64_t through pointer casts.  On the little-endian target  *)
(* an array of words is the number it spells in base 2^32, and that number *)
(* is how an array is held here: word i is bits 32i .. 32i+31, the         *)
(* uint64_t at word i is bits 32i .. 32i+63.                               *)
(***************************************************************************)
UINT32_MAX == BigSub(W32, BigOne)
UINT64_MAX == BigSub(W64, BigOne)

Word(mem, i) == low32(BigShr(mem, 32 * i))
Word64(mem, i) == BigModP2(BigShr(mem, 32 * i), 64)
\* mem with the width bits from bit pos on replaced by value.
SetBits(mem, pos, width, value) ==
    BigAdd(BigAdd(BigModP2(mem, pos), BigShl(value, pos)),
           BigShl(BigShr(mem, pos + width), pos + width))
SetWord(mem, i, value) == SetBits(mem, 32 * i, 32, value)
SetWord64(mem, i, value) == SetBits(mem, 32 * i, 64, value)

SEARCHSCALE_MAX_SCALE == POWER10_MAX64
OVFL_MAX32_1_HI == 429496729

\* PowerOvfl[i] of the code is PowerOvfl[i + 1] here.
PowerOvfl ==
    << [Hi |-> UINT64_MAX, Lo |-> UINT32_MAX],
       [Hi |-> Dec(<<184, 4674, 4073, 7095, 5161>>), Lo |-> Dec(<<25, 7698, 377>>)],
       [Hi |-> Dec(<<18, 4467, 4407, 3709, 5516>>), Lo |-> Dec(<<6, 8719, 4767>>)],
       [Hi |-> Dec(<<1, 8446, 7440, 7370, 9551>>), Lo |-> Dec(<<26, 4569, 9854>>)],
       [Hi |-> Dec(<<1844, 6744, 737, 955>>), Lo |-> Dec(<<6, 9406, 6715>>)],
       [Hi |-> Dec(<<184, 4674, 4073, 7095>>), Lo |-> Dec(<<22, 1689, 319>>)],
       [Hi |-> Dec(<<18, 4467, 4407, 3709>>), Lo |-> Dec(<<23, 6917, 2679>>)],
       [Hi |-> Dec(<<1, 8446, 7440, 7370>>), Lo |-> Dec(<<41, 238, 7834>>)],
       [Hi |-> Dec(<<1844, 6744, 737>>), Lo |-> Dec(<<4, 1023, 8783>>)],
       [Hi |-> Dec(<<184, 4674, 4073>>), Lo |-> Dec(<<30, 4750, 985>>)],
       [Hi |-> Dec(<<18, 4467, 4407>>), Lo |-> Dec(<<15, 9324, 287>>)],
       [Hi |-> Dec(<<1, 8446, 7440>>), Lo |-> Dec(<<31, 6580, 1135>>)],
       [Hi |-> Dec(<<1844, 6744>>), Lo |-> Dec(<<3, 1658, 113>>)],
       [Hi |-> Dec(<<184, 4674>>), Lo |-> Dec(<<17, 4964, 4929>>)],
       [Hi |-> Dec(<<18, 4467>>), Lo |-> Dec(<<18, 9295, 1411>>)],
       [Hi |-> Dec(<<1, 8446>>), Lo |-> Dec(<<31, 9577, 2248>>)],
       [Hi |-> Dec(<<1844>>), Lo |-> Dec(<<28, 9655, 7602>>)],
       [Hi |-> Dec(<<184>>), Lo |-> Dec(<<20, 764, 2678>>)],
       [Hi |-> Dec(<<18>>), Lo |-> Dec(<<19, 1875, 1186>>)],
       [Hi |-> Dec(<<1>>), Lo |-> Dec(<<36, 2784, 8955>>)] >>

\* Add96By64 and Add96By32 on a uint32_t array: the three words with value
\* added, and the carry out of bit 96.
Add96By64w(plVal, value) ==
    With(AddCarry64(0, Word64(plVal, 0), value), LAMBDA a :
    With(AddCarry32(a.carry, Word(plVal, 2), BigZero), LAMBDA b :
         [num |-> SetWord(SetWord64(plVal, 0, a.res), 2, b.res),
          carry |-> b.carry]))

Add96By32w(plVal, value) ==
    With(AddCarry32(0, Word(plVal, 0), value), LAMBDA a :
    With(AddCarry32(a.carry, Word(plVal, 1), BigZero), LAMBDA b :
    With(AddCarry32(b.carry, Word(plVal, 2), BigZero), LAMBDA c :
         [num |-> SetWord(SetWord(SetWord(plVal, 0, a.res), 1, b.res), 2, c.res),
          carry |-> c.carry])))

\* The three words times ulPwr: the low 96 bits in place, the bits above
\* them returned as hi.
IncreaseScale96By64(rgulNum, ulPwr) ==
    With(Mul64By64(Word64(rgulNum, 0), ulPwr), LAMBDA m0 :
    With(Mul64By64(Word(rgulNum, 2), ulPwr), LAMBDA m1 :
    With(AddCarry64(0, m1.lo, m0.hi), LAMBDA a :
    With(AddCarry64(a.carry, m1.hi, BigZero), LAMBDA b :
         [num |-> SetWord(SetWord64(rgulNum, 0, m0.lo), 2, low32(a.res)),
          hi |-> BigModP2(BigAdd(BigShl(low32(b.res), 32), hi32(a.res)), 64)]))))

IncreaseScale96By32(rgulNum, ulPwr) ==
    With(Mul64By32(Word64(rgulNum, 0), ulPwr), LAMBDA m :
    With(BigModP2(BigAdd(Mul32By32(Word(rgulNum, 2), ulPwr), m.hi), 64),
         LAMBDA sdlTmp :
         [num |-> SetWord(SetWord64(rgulNum, 0, m.lo), 2, low32(sdlTmp)),
          hi |-> hi32(sdlTmp)]))

\* SearchScale64 that compares the upper 64 bits of the quotient alone.
SearchScale64_HiOnly(rgulQuo, iScale) ==
    With(Word64(rgulQuo, 1), LAMBDA ulResHi :
    With(IF IsZero(ulResHi) THEN 0
         ELSE (((63 - BitScanMsb64(ulResHi)) * 77) \div 256) + 1, LAMBDA est :
    With(DEC_SCALE_MAX - iScale, LAMBDA toMax :
    \* The scale to try first: the one that reaches DEC_SCALE_MAX when it
    \* alone can fit, the estimate from the leading zero bits otherwise.
    With(IF iScale >= DEC_SCALE_MAX \/ BigGt(Word(rgulQuo, 2), Big(OVFL_MAX32_1_HI))
         THEN [iCurScale |-> 0, done |-> TRUE]
         ELSE IF /\ iScale > DEC_SCALE_MAX - SEARCHSCALE_MAX_SCALE
                 /\ BigLe(ulResHi, PowerOvfl[toMax + 1].Hi)
         THEN [iCurScale |-> toMax, done |-> FALSE]
         ELSE IF IsZero(ulResHi)
         THEN [iCurScale |-> SEARCHSCALE_MAX_SCALE, done |-> TRUE]
         ELSE [iCurScale |-> est, done |-> FALSE], LAMBDA try :
    With(IF try.done THEN try.iCurScale
         ELSE With(PowerOvfl[try.iCurScale + 1], LAMBDA ovfl :
              IF BigLt(ulResHi, ovfl.Hi) THEN try.iCurScale
              ELSE IF BigGt(ulResHi, ovfl.Hi) THEN try.iCurScale - 1
              ELSE try.iCurScale), LAMBDA iCurScale :
         IF iCurScale + iScale < 0 /\ iCurScale # SEARCHSCALE_MAX_SCALE THEN -1
         ELSE iCurScale)))))

\* SearchScale64 that always finds room for one more digit.
SearchScale64_OneMore(rgulQuo, iScale) == 1

\* The power of ten, at most 10^19, by which the quotient can still be
\* scaled within 96 bits and scale DEC_SCALE_MAX; -1 when the scale cannot
\* be brought up to zero.
SearchScale64(rgulQuo, iScale) ==
    With(Word64(rgulQuo, 1), LAMBDA ulResHi :
    With(IF IsZero(ulResHi) THEN 0
         ELSE (((63 - BitScanMsb64(ulResHi)) * 77) \div 256) + 1, LAMBDA est :
    With(DEC_SCALE_MAX - iScale, LAMBDA toMax :
    \* The scale to try first: the one that reaches DEC_SCALE_MAX when it
    \* alone can fit, the estimate from the leading zero bits otherwise.
    With(IF iScale >= DEC_SCALE_MAX \/ BigGt(Word(rgulQuo, 2), Big(OVFL_MAX32_1_HI))
         THEN [iCurScale |-> 0, done |-> TRUE]
         ELSE IF /\ iScale > DEC_SCALE_MAX - SEARCHSCALE_MAX_SCALE
                 /\ BigLe(ulResHi, PowerOvfl[toMax + 1].Hi)
         THEN [iCurScale |-> toMax, done |-> FALSE]
         ELSE IF IsZero(ulResHi)
         THEN [iCurScale |-> SEARCHSCALE_MAX_SCALE, done |-> TRUE]
         ELSE [iCurScale |-> est, done |-> FALSE], LAMBDA try :
    With(IF try.done THEN try.iCurScale
         ELSE With(PowerOvfl[try.iCurScale + 1], LAMBDA ovfl :
              IF BigLt(ulResHi, ovfl.Hi) THEN try.iCurScale
              ELSE IF BigGt(ulResHi, ovfl.Hi) THEN try.iCurScale - 1
              ELSE IF BigGt(Word(rgulQuo, 0), ovfl.Lo) THEN try.iCurScale - 1
              ELSE try.iCurScale), LAMBDA iCurScale :
         IF iCurScale + iScale < 0 /\ iCurScale # SEARCHSCALE_MAX_SCALE THEN -1
         ELSE iCurScale)))))

\* The three words divided by ulDen in place, and the remainder.
Div96By32_x64(rgulNum, ulDen) ==
    With(Word(rgulNum, 2), LAMBDA n2 :
    With(Word(rgulNum, 1), LAMBDA n1 :
    \* Div3Word when the top word holds a quotient digit.
    With(IF BigGe(n2, ulDen) THEN DivMod32By32(n2, ulDen)
         ELSE [quo |-> BigZero, rem |-> n2], LAMBDA d3 :
    \* Div2Word unless the two top words are less than ulDen.
    With(IF BigGe(n2, ulDen) \/ ~IsZero(n2) \/ BigGe(n1, ulDen)
         THEN DivMod64By32(n1, d3.rem, ulDen)
         ELSE [quo |-> BigZero, rem |-> n1], LAMBDA d2 :
    With(DivMod64By32(Word(rgulNum, 0), d2.rem, ulDen), LAMBDA d1 :
         [num |-> BigAdd(d1.quo, BigAdd(BigShl(d2.quo, 32), BigShl(d3.quo, 64))),
          rem |-> d1.rem])))))

\* The do-while of Div128By96: the divisor is added back, and the quotient
\* lowered, until the addition carries out of 96 bits.
RECURSIVE AddBack96(_, _, _, _, _)
AddBack96(quo, sdlNum, num2, rgulDen, n) ==
    With(AddCarry64(0, sdlNum, Word64(rgulDen, 0)), LAMBDA a :
    With(AddCarry32(a.carry, num2, Word(rgulDen, 2)), LAMBDA b :
    With(BigModP2(BigAdd(quo, UINT32_MAX), 32), LAMBDA q :
         IF b.carry = 0 THEN AddBack96(q, a.res, b.res, rgulDen, n + 1)
         ELSE [quo |-> q, sdlNum |-> a.res, num2 |-> b.res, n |-> n + 1])))

\* Four words by the three of rgulDen: a 32-bit quotient, the remainder in
\* the low three words, the fourth left as it was.  fault is the divide
\* error of DivMod64By32, addBack the passes of the add-back loop.
Div128By96_x64(rgulNum, rgulDen) ==
    With(Word(rgulNum, 3), LAMBDA num3 :
    With(Word(rgulNum, 2), LAMBDA num2 :
    With(Word(rgulDen, 2), LAMBDA den2 :
        IF IsZero(num3) /\ BigLt(num2, den2)
        THEN [num |-> rgulNum, quo |-> BigZero, fault |-> FALSE, addBack |-> 0]
        ELSE
    With(DivMod64By32(num2, num3, den2), LAMBDA d :
        IF d.fault
        THEN [num |-> rgulNum, quo |-> BigZero, fault |-> TRUE, addBack |-> 0]
        ELSE
    With(Mul64By32(Word64(rgulDen, 0), d.quo), LAMBDA p :
    With(SubBorrow64(0, Word64(rgulNum, 0), p.lo), LAMBDA s1 :
    With(SubBorrow32(s1.carry, d.rem, p.hi), LAMBDA s2 :
    With(IF s2.carry # 0 THEN AddBack96(d.quo, s1.res, s2.res, rgulDen, 0)
         ELSE [quo |-> d.quo, sdlNum |-> s1.res, num2 |-> s2.res, n |-> 0],
         LAMBDA back :
         [num |-> SetWord(SetWord64(rgulNum, 0, back.sdlNum), 2, back.num2),
          quo |-> back.quo, fault |-> FALSE, addBack |-> back.n]))))))))

\* Five words by the three of rgulDen: a 64-bit quotient from two calls of
\* Div128By96_x64, on words 1..4 and then on words 0..3.
Div160By96_x64(rgulNum, rgulDen) ==
    \* The first call, made when it can give a quotient digit.
    With(IF BigGe(Word64(rgulNum, 3), Word(rgulDen, 2))
         THEN Div128By96_x64(BigModP2(BigShr(rgulNum, 32), 128), rgulDen)
         ELSE [num |-> BigModP2(BigShr(rgulNum, 32), 128), quo |-> BigZero,
               fault |-> FALSE, addBack |-> 0], LAMBDA first :
        IF first.fault
        THEN [num |-> rgulNum, quo |-> BigZero, fault |-> TRUE, addBack |-> 0]
        ELSE
    With(SetBits(rgulNum, 32, 128, first.num), LAMBDA num1 :
    With(Div128By96_x64(BigModP2(num1, 128), rgulDen), LAMBDA second :
         [num |-> SetBits(num1, 0, 128, second.num),
          quo |-> BigModP2(BigAdd(BigModP2(BigShl(first.quo, 32), 64),
                                  second.quo), 64),
          fault |-> second.fault,
          addBack |-> IF first.addBack > second.addBack
                      THEN first.addBack ELSE second.addBack])))

\* The NegRem loops of Div96By64 and Div128By64: the divisor is added to
\* sdlNum, and the quotient of the given width lowered, while sdlNum >= ullDen.
RECURSIVE NegRem(_, _, _, _)
NegRem(quo, sdlNum, ullDen, width) ==
    With(BigModP2(BigAdd(quo, BigSub(P2(width), BigOne)), width), LAMBDA q :
    With(BigModP2(BigAdd(sdlNum, ullDen), 64), LAMBDA s :
         IF BigGe(s, ullDen) THEN NegRem(q, s, ullDen, width)
         ELSE [quo |-> q, sdlNum |-> s]))

\* Three words by a 64-bit divisor: a 32-bit quotient, the remainder in the
\* low two words.
Div96By64_x64(rgullNum, ullDen) ==
    With(Word(rgullNum, 0), LAMBDA num0 :
    With(Word(rgullNum, 1), LAMBDA num1 :
    With(Word(rgullNum, 2), LAMBDA num2 :
        IF ~BigGe(num2, hi32(ullDen)) /\ IsZero(num2)
           /\ BigLt(Word64(rgullNum, 0), ullDen)
        THEN [num |-> rgullNum, quo |-> BigZero]
        ELSE
    \* The quotient and remainder before the NegRem loop, and whether the
    \* loop is entered.
    With(IF BigGe(num2, hi32(ullDen))
         THEN [quo |-> BigZero,
               res |-> Make64(num0, BigModP2(BigAdd(num1,
                                  BigSub(W32, low32(ullDen))), 32)),
               carry |-> 1]
         ELSE With(DivMod64By32(num1, num2, hi32(ullDen)), LAMBDA d :
              With(SubBorrow64(0, Make64(num0, d.rem),
                               Mul32By32(d.quo, low32(ullDen))), LAMBDA s :
                   [quo |-> d.quo, res |-> s.res, carry |-> s.carry])),
         LAMBDA s :
    With(IF s.carry # 0 THEN NegRem(s.quo, s.res, ullDen, 32)
         ELSE [quo |-> s.quo, sdlNum |-> s.res], LAMBDA neg :
         [num |-> SetWord64(rgullNum, 0, neg.sdlNum), quo |-> neg.quo])))))

\* Four words by a 64-bit divisor: a 64-bit quotient, the remainder in the
\* low two words.
Div128By64_x64(rgullNum, ullDen) ==
    With(Word64(rgullNum, 2), LAMBDA hi64 :
    With(Word64(rgullNum, 0), LAMBDA lo64 :
        IF BigGe(hi64, ullDen)
        THEN With(NegRem(BigZero, hi64, ullDen, 64), LAMBDA over :
                  [num |-> SetWord64(rgullNum, 0, over.sdlNum), quo |-> over.quo])
        ELSE IF IsZero(hi64) /\ BigLt(lo64, ullDen)
        THEN [num |-> rgullNum, quo |-> BigZero]
        ELSE With(DivMod128By64(lo64, hi64, ullDen), LAMBDA d :
                  [num |-> SetWord64(rgullNum, 0, d.rem), quo |-> d.quo])))

\* ShiftLeft128 of decimal_calc.inl is
\*     (_HighPart << _Shift) | (_LowPart >> (64 - _Shift))
\* which for _Shift = 0 shifts a uint64_t by 64: undefined behaviour.  The
\* builds give one of two values: _HighPart where the shift pair becomes a
\* double shift (shld), _HighPart | _LowPart where the right shift is a
\* shr, whose count the processor takes modulo 64.  shift0 says which.
ShiftOutcomes == {"HighPart", "HighPart_or_LowPart"}

ShiftLeft128(LowPart, HighPart, Shift, shift0) ==
    IF Shift = 0
    THEN IF shift0 = "HighPart" THEN HighPart ELSE BigOr(HighPart, LowPart)
    ELSE BigOr(BigModP2(BigShl(HighPart, Shift), 64), BigShr(LowPart, 64 - Shift))

\* How a division loop of DecimalDiv ends.  st holds rgulQuo, the remainder,
\* iScale and fUnscale, with lostCarry = 1 once an Add96By32 or Add96By64
\* of new quotient digits has carried out of rgulQuo, passes the number of
\* scalings done and addBack the most passes of an add-back loop;
\* roundCarry is what Add96By32 returned at RoundUp.
DivEnd(hr, st, roundUp, roundCarry) ==
    [hr |-> hr, quo |-> st.quo, iScale |-> st.iScale, fUnscale |-> st.fUnscale,
     lostCarry |-> st.lostCarry, passes |-> st.passes, addBack |-> st.addBack,
     roundUp |-> roundUp, roundCarry |-> roundCarry]

\* The RoundUp label.
RoundUp(st) ==
    With(Add96By32w(st.quo, BigOne), LAMBDA add :
         DivEnd("NOERROR", [st EXCEPT !.quo = add.num], TRUE, add.carry))

Min(a, b) == IF a < b THEN a ELSE b
Max(a, b) == IF a > b THEN a ELSE b

\* One pass of the for (;;) loop of the 32-bit divisor branch: how the loop
\* ends, or st for the next pass, whose hr is still "running".  st.rem is
\* rgulRem[0].
Div32Pass(st, ulDivisor) ==
    LET HaveScale32(s, iCurScale) ==
            With(low32(rgulPower10_64[iCurScale + 1]), LAMBDA ullPwr32 :
            With(IncreaseScale96By32(s.quo, ullPwr32), LAMBDA inc :
                IF ~IsZero(inc.hi)
                THEN DivEnd("DISP_E_OVERFLOW",
                            [s EXCEPT !.iScale = @ + iCurScale], FALSE, 0)
                ELSE
            With(Mul32By32(s.rem, ullPwr32), LAMBDA num :
            With(DivMod64By32(low32(num), hi32(num), ulDivisor), LAMBDA d :
            With(Add96By32w(inc.num, d.quo), LAMBDA add :
                 [s EXCEPT !.quo = add.num, !.rem = d.rem,
                           !.iScale = @ + iCurScale,
                           !.lostCarry = Max(@, add.carry),
                           !.passes = @ + 1])))))
        \* After the remainder is seen not to be zero.
        Inexact(st1, iCur, ulTmp) ==
            IF iCur = 0
            THEN IF \/ BigLt(ulTmp, st1.rem)
                    \/ BigGt(ulTmp, ulDivisor)
                    \/ (ulTmp = ulDivisor /\ IsOdd(st1.quo))
                 THEN RoundUp(st1)
                 ELSE DivEnd("NOERROR", st1, FALSE, 0)
            ELSE IF iCur = -1 THEN DivEnd("DISP_E_OVERFLOW", st1, FALSE, 0)
            ELSE HaveScale32(st1, Min(iCur, POWER10_MAX32))
    IN  IF IsZero(st.rem)
        THEN IF st.iScale < 0
             THEN HaveScale32(st, Min(POWER10_MAX32, -st.iScale))
             ELSE DivEnd("NOERROR", st, FALSE, 0)
        ELSE Inexact([st EXCEPT !.fUnscale = TRUE],
                     SearchScale64(st.quo, st.iScale),
                     BigModP2(BigShl(st.rem, 1), 32))

\* One pass of the for (;;) loop of the 64-bit divisor branch: how the loop
\* ends, or st for the next pass, whose hr is still "running".  st.rem is
\* rgulRem.
Div64Pass(st, ullDivisor) ==
    LET HaveScale64(s, iCur0) ==
            With(Min(iCur0, POWER10_MAX32), LAMBDA iCurScale :
            With(low32(rgulPower10_64[iCurScale + 1]), LAMBDA ullPwr32 :
            With(IncreaseScale96By32(s.quo, ullPwr32), LAMBDA inc :
                IF ~IsZero(inc.hi)
                THEN DivEnd("DISP_E_OVERFLOW",
                            [s EXCEPT !.iScale = @ + iCurScale], FALSE, 0)
                ELSE
            With(Mul64By32(Word64(s.rem, 0), ullPwr32), LAMBDA m :
            With(Div96By64_x64(SetWord(SetWord64(s.rem, 0, m.lo), 2, m.hi),
                               ullDivisor), LAMBDA d :
            With(Add96By32w(inc.num, d.quo), LAMBDA add :
                 [s EXCEPT !.quo = add.num, !.rem = d.num,
                           !.iScale = @ + iCurScale,
                           !.lostCarry = Max(@, add.carry),
                           !.passes = @ + 1]))))))
        \* After the remainder rem0 is seen not to be zero.
        Inexact(st1, iCur, rem0, twice) ==
            IF iCur = 0
            THEN IF \/ BigGe(rem0, P2(63))
                    \/ BigGt(twice, ullDivisor)
                    \/ (twice = ullDivisor /\ IsOdd(st1.quo))
                 THEN RoundUp(st1)
                 ELSE DivEnd("NOERROR", st1, FALSE, 0)
            ELSE IF iCur = -1 THEN DivEnd("DISP_E_OVERFLOW", st1, FALSE, 0)
            ELSE HaveScale64(st1, iCur)
    IN  With(Word64(st.rem, 0), LAMBDA rem0 :
        IF IsZero(rem0)
        THEN IF st.iScale < 0
             THEN HaveScale64(st, Min(POWER10_MAX64, -st.iScale))
             ELSE DivEnd("NOERROR", st, FALSE, 0)
        ELSE Inexact([st EXCEPT !.fUnscale = TRUE],
                     SearchScale64(st.quo, st.iScale),
                     rem0, BigModP2(BigShl(rem0, 1), 64)))

\* One pass of the for (;;) loop of the 96-bit divisor branch: how the loop
\* ends, or st for the next pass, whose hr is still "running".  st.rem is
\* rgulRem.
Div96Pass(st, rgulDivisor) ==
    LET HaveScale96(s, iCurScale) ==
            With(rgulPower10_64[iCurScale + 1], LAMBDA ullPwr64 :
            With(IncreaseScale96By64(s.quo, ullPwr64), LAMBDA inc :
                IF ~IsZero(inc.hi)
                THEN DivEnd("DISP_E_OVERFLOW",
                            [s EXCEPT !.iScale = @ + iCurScale], FALSE, 0)
                ELSE
            With(IncreaseScale96By64(s.rem, ullPwr64), LAMBDA r :
            With(Div160By96_x64(SetWord64(r.num, 3, r.hi), rgulDivisor), LAMBDA d :
                IF d.fault
                THEN DivEnd("DIVIDE_ERROR",
                            [s EXCEPT !.iScale = @ + iCurScale], FALSE, 0)
                ELSE
            With(Add96By64w(inc.num, d.quo), LAMBDA add :
                 [s EXCEPT !.quo = add.num, !.rem = d.num,
                           !.iScale = @ + iCurScale,
                           !.lostCarry = Max(@, add.carry),
                           !.passes = @ + 1,
                           !.addBack = Max(@, d.addBack)])))))
        \* Whether the remainder, of top word rem2 and doubled in a and b,
        \* is more than half the divisor, or half of it with the quotient odd.
        Half(rem2, a, b, den0, den2) ==
            \/ BigGe(rem2, P2(31))
            \/ BigGt(b.res, den2)
            \/ /\ b.res = den2
               /\ \/ BigGt(a.res, den0)
                  \/ (a.res = den0 /\ IsOdd(st.quo))
        \* After the remainder is seen not to be zero.
        Inexact(st1, iCur, rem2, a) ==
            IF iCur = 0
            THEN IF Half(rem2, a, AddCarry32(a.carry, rem2, rem2),
                         Word64(rgulDivisor, 0), Word(rgulDivisor, 2))
                 THEN RoundUp(st1)
                 ELSE DivEnd("NOERROR", st1, FALSE, 0)
            ELSE IF iCur = -1 THEN DivEnd("DISP_E_OVERFLOW", st1, FALSE, 0)
            ELSE HaveScale96(st1, iCur)
    IN  With(Word64(st.rem, 0), LAMBDA rem0 :
        With(Word(st.rem, 2), LAMBDA rem2 :
        IF IsZero(BigOr(rem0, rem2))
        THEN IF st.iScale < 0
             THEN HaveScale96(st, Min(POWER10_MAX64, -st.iScale))
             ELSE DivEnd("NOERROR", st, FALSE, 0)
        ELSE Inexact([st EXCEPT !.fUnscale = TRUE],
                     SearchScale64(st.quo, st.iScale),
                     rem2, AddCarry64(0, rem0, rem0))))

\* The for (;;) loop of the 32-bit divisor branch.
RECURSIVE Div32Loop(_, _)
Div32Loop(st, ulDivisor) ==
    With(Div32Pass(st, ulDivisor), LAMBDA n :
         IF n.hr = "running" THEN Div32Loop(n, ulDivisor) ELSE n)

\* The for (;;) loop of the 64-bit divisor branch.
RECURSIVE Div64Loop(_, _)
Div64Loop(st, ullDivisor) ==
    With(Div64Pass(st, ullDivisor), LAMBDA n :
         IF n.hr = "running" THEN Div64Loop(n, ullDivisor) ELSE n)

\* The for (;;) loop of the 96-bit divisor branch.
RECURSIVE Div96Loop(_, _)
Div96Loop(st, rgulDivisor) ==
    With(Div96Pass(st, rgulDivisor), LAMBDA n :
         IF n.hr = "running" THEN Div96Loop(n, rgulDivisor) ELSE n)

\* One step of the unscaling: rgulQuo and iScale after trying to divide out
\* 10^iPower, which is kept only when the remainder is zero.
TryUnscale(u, iPower) ==
    IF Limb(u.quo, 1) % (2^iPower) = 0 /\ u.iScale >= iPower
    THEN With(Div96By32_x64(u.quo, low32(rgulPower10_64[iPower + 1])), LAMBDA d :
              IF IsZero(d.rem) THEN [quo |-> d.num, iScale |-> u.iScale - iPower]
              ELSE u)
    ELSE u

\* The while loop that divides out 10^8 as long as it can.
RECURSIVE Unscale8(_)
Unscale8(u) ==
    With(TryUnscale(u, 8), LAMBDA v : IF v = u THEN u ELSE Unscale8(v))

\* Unscale stopping after 10^4 and 10^2: a single trailing zero stays.
Unscale_NoLastStep(quo, iScale) ==
    TryUnscale(TryUnscale(
        Unscale8([quo |-> quo, iScale |-> iScale]), 4), 2)

\* "Try extracting any extra powers of 10 we may have added": 10^8
\* repeatedly, then 10^4, 10^2 and 10 once each.
Unscale(quo, iScale) ==
    TryUnscale(TryUnscale(TryUnscale(
        Unscale8([quo |-> quo, iScale |-> iScale]), 4), 2), 1)

\* DecimalDiv from its entry to the for (;;) loop of the branch the divisor
\* selects, and then, if run, the loop to its end; if not, the width of
\* the branch, its divisor and the state st the loop is entered in.
\* DivEnd where no loop is entered.  Words of rgulRem, rgulQuo and rgulDivisor
\* that the code leaves uninitialized are zero here; the code reads one of
\* them, rgulDivisor[3], as the top half of the _HighPart it shifts, and
\* keeps only the low word of that result, which does not depend on it.
DivBranch(pdecL, pdecR, shift0, run) ==
    LET Loop32(st, d) == IF run THEN Div32Loop(st, d)
                         ELSE [bits |-> 32, divisor |-> d, st |-> st]
        Loop64(st, d) == IF run THEN Div64Loop(st, d)
                         ELSE [bits |-> 64, divisor |-> d, st |-> st]
        Loop96(st, d) == IF run THEN Div96Loop(st, d)
                         ELSE [bits |-> 96, divisor |-> d, st |-> st]
        start ==
            [hr |-> "running", quo |-> BigZero, rem |-> BigZero,
             iScale |-> pdecL.scale - pdecR.scale, fUnscale |-> FALSE, lostCarry |-> 0, passes |-> 0, addBack |-> 0]
        \* The divisor is 32 bits long.
        Short(d32) ==
            Loop32([start EXCEPT !.quo = d32.num, !.rem = d32.rem],
                      low32(pdecR.Lo64))
        \* The divisor is 64 bits long.
        Long(d64, ullDivisor) ==
            Loop64([start EXCEPT !.quo = d64.quo, !.rem = d64.num], ullDivisor)
        \* The divisor is 96 bits long.
        Longest(d96, rgulDivisor) ==
            IF d96.fault THEN DivEnd("DIVIDE_ERROR", start, FALSE, 0)
            ELSE Loop96([start EXCEPT !.quo = d96.quo, !.rem = d96.num,
                                         !.addBack = d96.addBack], rgulDivisor)
        \* Dividend and divisor shifted left by iCurScale, "so that the
        \* divisor's top bit is set".
        Normalized(iCurScale, rgulRem, ullDivisor) ==
            IF IsZero(pdecR.Hi32)
            THEN Long(Div128By64_x64(rgulRem, ullDivisor), ullDivisor)
            ELSE With(SetWord(ullDivisor, 2,
                              low32(ShiftLeft128(pdecR.Lo64, pdecR.Hi32,
                                                 iCurScale, shift0))),
                      LAMBDA rgulDivisor :
                      Longest(Div128By96_x64(rgulRem, rgulDivisor), rgulDivisor))
    IN  IF IsZero(pdecR.Hi32) /\ IsZero(pdecR.Lo64)
        THEN DivEnd("DISP_E_DIVBYZERO", start, FALSE, 0)
        ELSE IF IsZero(pdecR.Hi32) /\ FitsIn32Bit(pdecR.Lo64)
        THEN Short(Div96By32_x64(BigAdd(pdecL.Lo64, BigShl(pdecL.Hi32, 64)),
                                 low32(pdecR.Lo64)))
        ELSE With(31 - BitScanMsb32(IF IsZero(pdecR.Hi32) THEN hi32(pdecR.Lo64)
                                    ELSE pdecR.Hi32), LAMBDA iCurScale :
                  Normalized(iCurScale,
                             SetWord64(BigModP2(BigShl(pdecL.Lo64, iCurScale), 64), 2,
                                       ShiftLeft128(pdecL.Lo64, pdecL.Hi32,
                                                    iCurScale, shift0)),
                             BigModP2(BigShl(pdecR.Lo64, iCurScale), 64)))

\* DecimalDiv up to the end of its division loop: DivEnd of the branch the
\* divisor selects.
DivLoops(pdecL, pdecR, shift0) ==
    DivBranch(pdecL, pdecR, shift0, TRUE)

\* DecimalDiv about to make the first pass of its division loop: the
\* width of the divisor's branch, the divisor as the loop uses it, and
\* the state st of the loop; with bits = 0, st is how a call that enters
\* no loop ends.
DivEnter(pdecL, pdecR, shift0) ==
    With(DivBranch(pdecL, pdecR, shift0, FALSE),
         LAMBDA e : IF "bits" \in DOMAIN e THEN e
                    ELSE [bits |-> 0, divisor |-> BigZero, st |-> e])

\* One pass of the loop that DivEnter entered.
DivPassOf(e) ==
    [e EXCEPT !.st = IF e.bits = 32 THEN Div32Pass(e.st, e.divisor)
                     ELSE IF e.bits = 64 THEN Div64Pass(e.st, e.divisor)
                     ELSE Div96Pass(e.st, e.divisor)]

\* After the while loop over 10^8: 10^4, 10^2 and 10 once each.
UnscaleRest(u) == TryUnscale(TryUnscale(TryUnscale(u, 4), 2), 1)

\* DecimalDiv taking trailing zeros off every quotient, also one that never
\* had a remainder.
DecimalDiv_AlwaysUnscale(pdecL, pdecR, pdecRes, shift0) ==
    With(DivLoops(pdecL, pdecR, shift0), LAMBDA end :
        IF end.hr # "NOERROR"
        THEN [hr |-> end.hr, res |-> pdecRes, end |-> end]
        ELSE
    With(Unscale(end.quo, end.iScale), LAMBDA u :
         [hr |-> "NOERROR",
          res |-> [pdecRes EXCEPT !.Hi32 = Word(u.quo, 2),
                                  !.scale = u.iScale % 256,
                                  !.sign = ResultSign(pdecL, pdecR),
                                  !.Lo64 = Word64(u.quo, 0)],
          end |-> end]))

\* DecimalDiv reporting a zero divisor as an overflow.
DecimalDiv_ZeroAsOverflow(pdecL, pdecR, pdecRes, shift0) ==
    With(DivLoops(pdecL, pdecR, shift0), LAMBDA end :
        IF end.hr = "DISP_E_DIVBYZERO"
        THEN [hr |-> "DISP_E_OVERFLOW", res |-> pdecRes, end |-> end]
        ELSE IF end.hr # "NOERROR"
        THEN [hr |-> end.hr, res |-> pdecRes, end |-> end]
        ELSE
    With(IF end.fUnscale THEN Unscale(end.quo, end.iScale)
         ELSE [quo |-> end.quo, iScale |-> end.iScale], LAMBDA u :
         [hr |-> "NOERROR",
          res |-> [pdecRes EXCEPT !.Hi32 = Word(u.quo, 2),
                                  !.scale = u.iScale % 256,
                                  !.sign = ResultSign(pdecL, pdecR),
                                  !.Lo64 = Word64(u.quo, 0)],
          end |-> end]))

\* hr and res as for the other operations, and the record of the division
\* loop as end.  A divide error of the processor ends the process: hr is
\* then "DIVIDE_ERROR" and nothing is returned.
DecimalDiv(pdecL, pdecR, pdecRes, shift0) ==
    With(DivLoops(pdecL, pdecR, shift0), LAMBDA end :
        IF end.hr # "NOERROR"
        THEN [hr |-> end.hr, res |-> pdecRes, end |-> end]
        ELSE
    With(IF end.fUnscale THEN Unscale(end.quo, end.iScale)
         ELSE [quo |-> end.quo, iScale |-> end.iScale], LAMBDA u :
         [hr |-> "NOERROR",
          res |-> [pdecRes EXCEPT !.Hi32 = Word(u.quo, 2),
                                  !.scale = u.iScale % 256,
                                  !.sign = ResultSign(pdecL, pdecR),
                                  !.Lo64 = Word64(u.quo, 0)],
          end |-> end]))

(***************************************************************************)
(* COMDecimal::NumberToDecimal of decimal.cpp, with the portable DecMul10  *)
(* and DecAddInt32 that every target but x86 takes.  The local DECIMAL d   *)
(* is its three mantissa words LO32, MID32 and HI32.  A character is its   *)
(* code, '0' being 48; number.digits holds the digits 0..9 of the string,  *)
(* which the terminator 0 follows, and p counts from 1 at digits[0].       *)
(***************************************************************************)

\* 0x19999999, 0x99999999 and 0x9999999A.
Hex19999999 == BigAdd(BigShl(Big(6553), 16), Big(39321))
Hex99999999 == BigAdd(BigShl(Big(39321), 16), Big(39321))
Hex9999999A == BigAdd(Hex99999999, BigOne)

\* *value + i in 32 bits, and whether it wrapped.
D32AddCarry(value, i) ==
    With(BigModP2(BigAdd(value, i), 32), LAMBDA sum :
         [res |-> sum,
          carry |-> IF BigLt(sum, value) \/ BigLt(sum, i) THEN 1 ELSE 0])

\* 0x80000000.
Hex80000000 == P2(31)

DecShiftLeft(value) ==
    With(IF BigGe(value.LO32, Hex80000000) THEN BigOne ELSE BigZero, LAMBDA c0 :
    With(IF BigGe(value.MID32, Hex80000000) THEN BigOne ELSE BigZero, LAMBDA c1 :
         [LO32 |-> BigModP2(BigShl(value.LO32, 1), 32),
          MID32 |-> BigOr(BigModP2(BigShl(value.MID32, 1), 32), c0),
          HI32 |-> BigOr(BigModP2(BigShl(value.HI32, 1), 32), c1)]))

DecAdd(value, d) ==
    With(D32AddCarry(value.LO32, d.LO32), LAMBDA lo :
    With(IF lo.carry # 0 THEN D32AddCarry(value.MID32, BigOne)
         ELSE [res |-> value.MID32, carry |-> 0], LAMBDA m1 :
    With(IF m1.carry # 0 THEN D32AddCarry(value.HI32, BigOne).res
         ELSE value.HI32, LAMBDA h1 :
    With(D32AddCarry(m1.res, d.MID32), LAMBDA m2 :
    With(IF m2.carry # 0 THEN D32AddCarry(h1, BigOne).res ELSE h1, LAMBDA h2 :
         [LO32 |-> lo.res, MID32 |-> m2.res,
          HI32 |-> D32AddCarry(h2, d.HI32).res])))))

\* DecMul10 without the DecAdd: eight times *value.
DecMul10_NoAdd(value) ==
    DecShiftLeft(DecShiftLeft(DecShiftLeft(value)))

DecMul10(value) ==
    DecShiftLeft(DecAdd(DecShiftLeft(DecShiftLeft(value)), value))

DecAddInt32(value, i) ==
    With(D32AddCarry(value.LO32, i), LAMBDA lo :
    With(IF lo.carry # 0 THEN D32AddCarry(value.MID32, BigOne)
         ELSE [res |-> value.MID32, carry |-> 0], LAMBDA m :
         [LO32 |-> lo.res, MID32 |-> m.res,
          HI32 |-> IF m.carry # 0 THEN D32AddCarry(value.HI32, BigOne).res
                   ELSE value.HI32]))

\* *p for p at or after digits[0]: a digit's character, or the terminator.
CharAt(digits, p) == IF p \in 1..Len(digits) THEN 48 + digits[p] ELSE 0

\* The test of d with any digit let through at 0x19999999_99999999_99999999.
CanAbsorb_AnyDigit(d, c) ==
    \/ BigLt(d.HI32, Hex19999999)
    \/ /\ d.HI32 = Hex19999999
       /\ \/ BigLt(d.MID32, Hex99999999)
          \/ (d.MID32 = Hex99999999 /\ BigLe(d.LO32, Hex99999999))

\* The second half of the while condition: d can take one more digit, the
\* character c.
CanAbsorb(d, c) ==
    \/ BigLt(d.HI32, Hex19999999)
    \/ /\ d.HI32 = Hex19999999
       /\ \/ BigLt(d.MID32, Hex99999999)
          \/ /\ d.MID32 = Hex99999999
             /\ \/ BigLt(d.LO32, Hex99999999)
                \/ (d.LO32 = Hex99999999 /\ c <= 53)

\* The while loop that absorbs digits: d, p and e when it ends.
RECURSIVE AbsorbDigits(_, _, _, _)
AbsorbDigits(digits, d, p, e) ==
    With(CharAt(digits, p), LAMBDA c :
        IF (e > 0 \/ (c # 0 /\ e > -28)) /\ CanAbsorb(d, c)
        THEN AbsorbDigits(digits,
                          IF c # 0 THEN DecAddInt32(DecMul10(d), Big(c - 48))
                          ELSE DecMul10(d),
                          IF c # 0 THEN p + 1 ELSE p,
                          e - 1)
        ELSE [d |-> d, p |-> p, e |-> e])

\* The while loop that passes over zeros: p when it ends.
RECURSIVE SkipZeros(_, _, _)
SkipZeros(digits, p, count) ==
    IF CharAt(digits, p) = 48 /\ count # 0
    THEN SkipZeros(digits, p + 1, count - 1)
    ELSE [p |-> p, count |-> count]

\* d with no digit absorbed.
NoDigits == [LO32 |-> BigZero, MID32 |-> BigZero, HI32 |-> BigZero]

\* Whether *(p-2) is even once p has passed the first dropped digit, which
\* stood at dropped.  With no digit absorbed that character lies before
\* digits[0], outside the array: its parity is before.
PreviousIsEven(digits, dropped, before) ==
    IF dropped >= 2 THEN digits[dropped - 1] % 2 = 0 ELSE before = 0

\* Whether the first dropped digit, at dropped, rounds d up.
RoundsUp(digits, dropped, before) ==
    With(CharAt(digits, dropped), LAMBDA c :
        /\ c >= 53
        /\ \/ ~(c = 53 /\ PreviousIsEven(digits, dropped, before))
           \/ With(SkipZeros(digits, dropped + 1, 20), LAMBDA z :
                   ~(CharAt(digits, z.p) = 0 \/ z.count = 0)))

\* The round up with no care for a mantissa that has wrapped.
RoundDigits_NoWrap(d, e) == [d |-> DecAddInt32(d, BigOne), e |-> e]

\* d and e after the round up.
RoundDigits(d, e) ==
    With(DecAddInt32(d, BigOne), LAMBDA r :
        IF IsZero(BigOr(BigOr(r.HI32, r.MID32), r.LO32))
        THEN [d |-> [LO32 |-> Hex9999999A, MID32 |-> Hex99999999,
                     HI32 |-> Hex19999999],
              e |-> e + 1]
        ELSE [d |-> r, e |-> e])

\* The scale stored for every digit.
StoreScale_Always(d, e, precision) == [d |-> d, scale |-> -e]

\* The mantissa and the scale stored for an e that is not positive.
StoreScale(d, e, precision) ==
    IF e <= -precision
    THEN [d |-> NoDigits, scale |-> precision - 1]
    ELSE [d |-> d, scale |-> -e]

\* The function's result: the int it returns, *value after it, and what it
\* did on the way: absorbed digits, d and e after them and e at the end,
\* whether it read the character before digits[0], whether it rounded up.
NumberResult(ret, value, absorbed, dAbsorbed, e, eEnd, readBefore, round) ==
    [ret |-> ret, value |-> value, absorbed |-> absorbed, d |-> dAbsorbed,
     e |-> e, eEnd |-> eEnd, readBefore |-> readBefore, round |-> round]

\* The end of the function, from the test of e on.
NumberFinish(number, value, precision, d, e, absorbed, dAbsorbed, eAbsorbed, readBefore, round) ==
    IF e > 0
    THEN NumberResult(0, value, absorbed, dAbsorbed, eAbsorbed, e, readBefore, round)
    ELSE With(StoreScale(d, e, precision), LAMBDA s :
             NumberResult(1,
                 [wReserved |-> 0, scale |-> s.scale,
                  sign |-> IF number.sign # 0 THEN DECIMAL_NEG ELSE 0,
                  Hi32 |-> s.d.HI32, Lo64 |-> Make64(s.d.LO32, s.d.MID32)],
                 absorbed, dAbsorbed, eAbsorbed, e, readBefore, round))

\* DECIMAL_PRECISION is precision; before is the parity of the character
\* before digits[0].
NumberToDecimal(number, value, before, precision) ==
    IF CharAt(number.digits, 1) = 0
    THEN With(IF number.scale > 0 THEN 0 ELSE number.scale, LAMBDA e :
             NumberFinish(number, value, precision, NoDigits, e, 0, NoDigits, e,
                          FALSE, FALSE))
    ELSE IF number.scale > precision
    THEN NumberResult(0, value, 0, NoDigits, number.scale, number.scale, FALSE, FALSE)
    ELSE With(AbsorbDigits(number.digits, NoDigits, 1, number.scale), LAMBDA a :
         With(RoundsUp(number.digits, a.p, before), LAMBDA round :
         With(IF round THEN RoundDigits(a.d, a.e) ELSE [d |-> a.d, e |-> a.e],
              LAMBDA r :
             NumberFinish(number, value, precision, r.d, r.e, a.p - 1, a.d, a.e,
                          a.p = 1 /\ CharAt(number.digits, 1) = 53, round))))

(***************************************************************************)
(* COMDecimal::ToInt32 of decimal.cpp.  VarDecRound and VarDecFix are the  *)
(* platform library's: rounding to a number of fractional digits, a tie    *)
(* going to the even neighbour, and removal of the fractional digits.      *)
(***************************************************************************)

\* A number below 2^31 as a machine integer of the model.
Int31(a) == Limb(a, 1) + Base * Limb(a, 2) + Base * Base * Limb(a, 3)

\* (INT32) of a 32-bit word.
INT32(word) ==
    IF BigLt(word, P2(31)) THEN Int31(word)
    ELSE (-Int31(BigSub(BigSub(W32, word), BigOne))) - 1

\* VarDecRound(pdecIn, cDecimals, pdecRes): the HRESULT and *pdecRes.
VarDecRound(pdecIn, cDecimals) ==
    IF cDecimals >= pdecIn.scale
    THEN [hr |-> "NOERROR", res |-> pdecIn]
    ELSE With(BigDivMod(BigAdd(pdecIn.Lo64, BigShl(pdecIn.Hi32, 64)),
                        Pow10(pdecIn.scale - cDecimals)), LAMBDA qr :
         With(BigShl(qr[2], 1), LAMBDA twice :
         With(IF BigGt(twice, Pow10(pdecIn.scale - cDecimals))
                 \/ (twice = Pow10(pdecIn.scale - cDecimals) /\ IsOdd(qr[1]))
              THEN BigAdd(qr[1], BigOne) ELSE qr[1], LAMBDA m :
              [hr |-> "NOERROR",
               res |-> [wReserved |-> pdecIn.wReserved, scale |-> cDecimals,
                        sign |-> pdecIn.sign,
                        Hi32 |-> BigShr(m, 64), Lo64 |-> BigModP2(m, 64)]])))

\* VarDecFix(pdecIn, pdecRes): *pdecRes.
VarDecFix(pdecIn) ==
    With(BigDivMod(BigAdd(pdecIn.Lo64, BigShl(pdecIn.Hi32, 64)),
                   Pow10(pdecIn.scale))[1], LAMBDA m :
         [wReserved |-> pdecIn.wReserved, scale |-> 0, sign |-> pdecIn.sign,
          Hi32 |-> BigShr(m, 64), Lo64 |-> BigModP2(m, 64)])

\* What the function returns (thrown is "none") or throws, and its local
\* result at that point.
Int32Result(thrown, i, result) ==
    [f |-> "ToInt32", thrown |-> thrown, i |-> i, result |-> result]

\* The function from the test of the scale on.
ToInt32Fixed(rounded) ==
    With(IF rounded.scale # 0 THEN VarDecFix(rounded) ELSE rounded, LAMBDA result :
        IF IsZero(result.Hi32) /\ IsZero(hi32(result.Lo64))
        THEN With(INT32(low32(result.Lo64)), LAMBDA i :
                 IF result.sign < DECIMAL_NEG
                 THEN IF i >= 0 THEN Int32Result("none", i, result)
                      ELSE Int32Result("Overflow_Int32", 0, result)
                 ELSE IF low32(result.Lo64) = P2(31)
                 THEN Int32Result("none", i, result)
                 ELSE IF -i <= 0 THEN Int32Result("none", -i, result)
                 ELSE Int32Result("Overflow_Int32", 0, result))
        ELSE Int32Result("Overflow_Int32", 0, result))

ToInt32(d) ==
    With(VarDecRound(d, 0), LAMBDA r :
        IF r.hr # "NOERROR"
        THEN Int32Result("Overflow_Decimal", 0, r.res)
        ELSE ToInt32Fixed([r.res EXCEPT !.wReserved = 0]))

(***************************************************************************)
(* The calls.  A caller (COMDecimal::DoMultiply, DoDivide, DoAddSub and    *)
(* their Throw variants) passes two operands and the address of a local    *)
(* DECIMAL decRes it has not initialized; the operation runs to its        *)
(* return.                                                                 *)
(***************************************************************************)

\* How many of the mantissas and of the scales below the operands use.
MantCount == 8
ScaleCount == 3

MantList ==
    << BigZero, BigOne, Big(5), BigSub(P2(96), BigOne), Big(2), Big(3),
       BigSub(Pow10(28), BigOne), BigSub(P2(96), Big(8)),
       Pow10(19), Big(15), Pow10(10) >>

ScaleList == << 0, 1, DEC_SCALE_MAX, 20, 14 >>

Mantissas == { MantList[i] : i \in 1..Min(MantCount, Len(MantList)) }
Scales == { ScaleList[i] : i \in 1..Min(ScaleCount, Len(ScaleList)) }

\* A DECIMAL as a caller holds it: wReserved is 0.
MakeDecimal(m, sc, sg) ==
    [wReserved |-> 0, scale |-> sc, sign |-> sg,
     Hi32 |-> BigShr(m, 64), Lo64 |-> BigModP2(m, 64)]

Operands ==
    { MakeDecimal(m, sc, sg) : m \in Mantissas, sc \in Scales, sg \in {0, DECIMAL_NEG} }

\* Operands of everyday size: 0, 1, 1.0, 0.1, 0.5, 2.00, 3 and 8, of
\* either sign.
ExampleList ==
    << <<BigZero, 0>>, <<BigOne, 0>>, <<Big(10), 1>>, <<BigOne, 1>>,
       <<Big(5), 1>>, <<Big(200), 2>>, <<Big(3), 0>>, <<Big(8), 0>> >>

Examples ==
    { MakeDecimal(ExampleList[i][1], ExampleList[i][2], sg) :
          i \in 1..Len(ExampleList), sg \in {0, DECIMAL_NEG} }

\* How many of the digit strings' beginnings and of the scales below the
\* NUMBERs use.
HeadCount == 6
NumberScaleCount == 10

\* Nothing, 1, 2, 1999021176470588235294117647, 0x19999999_99999999_99999999
\* (7922816251426433759354395033), the number after it, and 99.
HeadList ==
    << << >>, <<1>>, <<2>>,
       <<1,9,9,9,0,2,1,1,7,6,4,7,0,5,8,8,2,3,5,2,9,4,1,1,7,6,4,7>>,
       <<7,9,2,2,8,1,6,2,5,1,4,2,6,4,3,3,7,5,9,3,5,4,3,9,5,0,3,3>>,
       <<7,9,2,2,8,1,6,2,5,1,4,2,6,4,3,3,7,5,9,3,5,4,3,9,5,0,3,4>>,
       <<9,9>> >>

NumberScaleList == << 0, 1, 7, 28, 29, 30, -21, -27, -28, -29, -26 >>

\* What follows the beginning: a digit about the half, a run of zeros and
\* a last digit, each of which may be absent.
Endings ==
    { m \o Zeros(z) \o t :
          m \in {<< >>, <<4>>, <<5>>, <<6>>}, z \in {0, 1, 19, 20},
          t \in {<< >>, <<1>>, <<5>>} }

\* A NUMBER as the function reads it: the digits before the terminator,
\* scale (where the decimal point stands: the value is 0.digits times
\* 10^scale) and sign.
Numbers ==
    { [digits |-> HeadList[h] \o ending, scale |-> NumberScaleList[sc], sign |-> sg] :
          h \in 1..Min(HeadCount, Len(HeadList)), ending \in Endings,
          sc \in 1..Min(NumberScaleCount, Len(NumberScaleList)),
          sg \in {0, 1} }

\* The values DECIMAL_PRECISION may have.
PrecisionValues == {DEC_SCALE_MAX, DEC_SCALE_MAX + 1}

\* number and parsed before a NUMBER is there and before it is converted.
NoNumber == [digits |-> << >>, scale |-> 0, sign |-> 0]
NotParsed ==
    [ret |-> -1, absorbed |-> 0, d |-> NoDigits, e |-> 0, eEnd |-> 0,
     readBefore |-> FALSE,
     round |-> FALSE, before |-> 0]

\* Operands about the ends of INT32: mantissas about 2^31 and ten times
\* 2^31, halves, and mantissas wider than 32 and 64 bits.
Int32Operands ==
    { MakeDecimal(m, sc, sg) :
          m \in { BigZero, Big(4), Big(5), Big(9), Big(15), Big(25),
                  BigSub(P2(31), BigOne), P2(31), BigAdd(P2(31), BigOne),
                  BigAdd(BigMulSmall(BigSub(P2(31), BigOne), 10), Big(4)),
                  BigAdd(BigMulSmall(BigSub(P2(31), BigOne), 10), Big(5)),
                  BigAdd(BigMulSmall(P2(31), 10), Big(5)),
                  BigAdd(BigMulSmall(P2(31), 10), Big(6)),
                  BigSub(W32, BigOne), W32, W64, BigSub(P2(96), BigOne) },
          sc \in {0, 1, 2, DEC_SCALE_MAX}, sg \in {0, DECIMAL_NEG} }

\* The bit positions above bit 96 that the top bit of a ScaleResult
\* array of three words can have, and the estimate for each.
EstimateBits == 0..(2 * 64 + 63 - 96)
Estimate(b) == ((b * 77) \div 256) + 1

\* Magnitudes for ScaleResult with the scales each is tried at: for every
\* bit position the least and the greatest magnitude with that top bit, at
\* the scales about the estimate; magnitudes that end in a half, just
\* under and just over it, after one and after two divisions by a power
\* of ten; and magnitudes of 96 bits and less.
ScaleResultInputs ==
    { <<v, sc>> \in
        UNION { { BigShl(BigOne, 96 + b), BigSub(BigShl(BigOne, 97 + b), BigOne) }
                  \X { Estimate(b) - 1, Estimate(b), Estimate(b) + 1,
                       Estimate(b) + DEC_SCALE_MAX, 2 * DEC_SCALE_MAX }
                : b \in EstimateBits } : sc \in 0..(2 * DEC_SCALE_MAX) }
    \cup
    { <<BigAdd(BigMul(q, Pow10(k)), BigAdd(BigMulSmall(Pow10(k - 1), 5), Big(t))),
        sc>> :
          q \in { BigSub(P2(96), BigOne), BigSub(P2(96), Big(2)), Big(2), Big(3) },
          k \in {1, 10}, t \in {0, 1}, sc \in {10, DEC_SCALE_MAX + 1, DEC_SCALE_MAX + 10} }
    \cup
    { <<BigSub(BigAdd(BigMul(q, Pow10(k)), BigMulSmall(Pow10(k - 1), 5)), BigOne),
        sc>> :
          q \in { BigSub(P2(96), BigOne), BigSub(P2(96), Big(2)), Big(2), Big(3) },
          k \in {1, 10}, sc \in {10, DEC_SCALE_MAX + 1, DEC_SCALE_MAX + 10} }
    \cup
    ( { BigOne, Big(15), Big(25), BigSub(P2(96), BigOne), W64 }
        \X { 0, DEC_SCALE_MAX, DEC_SCALE_MAX + 1, 2 * DEC_SCALE_MAX } )

\* A magnitude as the uint64_t array of three words ScaleResult takes, and
\* the index of its last word that is not zero.
ScaleResultArray(v) ==
    << BigModP2(v, 64), BigModP2(BigShr(v, 64), 64), BigShr(v, 128) >>
ScaleResultHi(v) == IF BigGe(v, P2(128)) THEN 2 ELSE IF BigGe(v, W64) THEN 1 ELSE 0

\* The ways AddCarry64 and SubBorrow64 are compiled.
CarryVariants == {"intrinsic", "builtin", "int128", "pair"}

\* 64-bit operands for AddCarry64 and SubBorrow64: the ends of the range
\* and the values about the middle bit.
CarryOperands ==
    { BigZero, BigOne, BigSub(W32, BigOne), W32, BigAdd(W32, BigOne),
      P2(63), BigSub(W64, W32), BigSub(W64, BigOne) }

\* PowerOvfl[k] as one number.
PowerOvflValue(k) == Make64(PowerOvfl[k + 1].Lo, PowerOvfl[k + 1].Hi)

\* Quotients for SearchScale64, none of them zero: every entry of
\* PowerOvfl with its two neighbours, and the powers of two with the
\* numbers before them.
SearchScaleQuotients ==
    ( UNION { { BigSub(PowerOvflValue(k), BigOne), PowerOvflValue(k),
                BigAdd(PowerOvflValue(k), BigOne) } : k \in 0..SEARCHSCALE_MAX_SCALE }
      \cup UNION { { P2(j), BigSub(P2(j + 1), BigOne) } : j \in 0..95 } )
    \ { BigZero, P2(96) }

\* decRes before the call: memory nothing has written, shown as a
\* pattern no operation writes.
Unwritten ==
    [wReserved |-> 52428, scale |-> 204, sign |-> 204,
     Hi32 |-> BigSub(W32, BigOne), Lo64 |-> BigSub(W64, BigOne)]

\* end before a division has run.
NoDiv ==
    [hr |-> "none", quo |-> BigZero, iScale |-> 0, fUnscale |-> FALSE,
     lostCarry |-> 0, passes |-> 0, addBack |-> 0, roundUp |-> FALSE,
     roundCarry |-> 0]

\* Whether DecimalDiv with this divisor calls ShiftLeft128 with a shift of
\* zero: the divisor is wider than 32 bits and its top word has bit 31 set.
ShiftsByZero(pdecR) ==
    LET ulTmp == IF IsZero(pdecR.Hi32) THEN hi32(pdecR.Lo64) ELSE pdecR.Hi32
    IN  ~(IsZero(pdecR.Hi32) /\ FitsIn32Bit(pdecR.Lo64))
        /\ BitScanMsb32(ulTmp) = 31

\* args and ret with no call of a single function under way.
NoCall == [f |-> "none"]

VARIABLES pc, op, pdecL, pdecR, pdecRes, hr, shift0, end,
          number, precision, parsed, args, ret

vars == <<pc, op, pdecL, pdecR, pdecRes, hr, shift0, end,
          number, precision, parsed, args, ret>>

\* What the arithmetic calls leave alone.
parse == <<number, precision, parsed, args, ret>>

Init ==
    /\ pc = "idle"
    /\ op = "none"
    /\ pdecL = DECIMAL_SETZERO
    /\ pdecR = DECIMAL_SETZERO
    /\ pdecRes = Unwritten
    /\ hr = "none"
    /\ shift0 = "none"
    /\ end = NoDiv
    /\ number = NoNumber
    /\ precision = 0
    /\ parsed = NotParsed
    /\ args = NoCall
    /\ ret = NoCall

\* The caller has its two operands.
Load ==
    /\ pc = "idle"
    /\ \E l \in Operands, r \in Operands :
          /\ pdecL' = l
          /\ pdecR' = r
    /\ pc' = "ready"
    /\ UNCHANGED <<op, pdecRes, hr, shift0, end, parse>>

\* The caller has two operands of everyday size.
LoadExample ==
    /\ pc = "idle"
    /\ \E l \in Examples, r \in Examples :
          /\ pdecL' = l
          /\ pdecR' = r
    /\ pc' = "ready"
    /\ UNCHANGED <<op, pdecRes, hr, shift0, end, parse>>

CallMul ==
    /\ pc = "ready"
    /\ \E c \in {DecimalMul(pdecL, pdecR, pdecRes)} :
          /\ hr' = c.hr
          /\ pdecRes' = c.res
    /\ pc' = "returned"
    /\ op' = "Mul"
    /\ UNCHANGED <<pdecL, pdecR, shift0, end, parse>>

CallAdd ==
    /\ pc = "ready"
    /\ \E c \in {DecimalAdd(pdecL, pdecR, pdecRes)} :
          /\ hr' = c.hr
          /\ pdecRes' = c.res
    /\ pc' = "returned"
    /\ op' = "Add"
    /\ UNCHANGED <<pdecL, pdecR, shift0, end, parse>>

CallSub ==
    /\ pc = "ready"
    /\ \E c \in {DecimalSub(pdecL, pdecR, pdecRes)} :
          /\ hr' = c.hr
          /\ pdecRes' = c.res
    /\ pc' = "returned"
    /\ op' = "Sub"
    /\ UNCHANGED <<pdecL, pdecR, shift0, end, parse>>

\* A divide error ends the process where it happens.
CallDiv ==
    /\ pc = "ready"
    /\ \E s \in IF ShiftsByZero(pdecR) THEN ShiftOutcomes ELSE {"none"} :
          \E c \in {DecimalDiv(pdecL, pdecR, pdecRes, s)} :
              /\ hr' = c.hr
              /\ pdecRes' = c.res
              /\ end' = c.end
              /\ shift0' = s
              /\ pc' = IF c.hr = "DIVIDE_ERROR" THEN "faulted" ELSE "returned"
    /\ op' = "Div"
    /\ UNCHANGED <<pdecL, pdecR, parse>>

\* The caller has a NUMBER to convert.
LoadNumber ==
    /\ pc = "idle"
    /\ \E n \in Numbers : number' = n
    /\ pc' = "parsed"
    /\ UNCHANGED <<op, pdecL, pdecR, pdecRes, hr, shift0, end, precision, parsed,
                   args, ret>>

\* pdecRes is the caller's *value.  Where the function reads the character
\* before digits[0], that character is even (b = 0) or odd.
CallNumberToDecimal ==
    /\ pc = "parsed"
    /\ \E pr \in PrecisionValues :
       \E even \in {NumberToDecimal(number, pdecRes, 0, pr)} :
       \E b \in IF even.readBefore THEN {0, 1} ELSE {0} :
          \E c \in {IF b = 0 THEN even ELSE NumberToDecimal(number, pdecRes, b, pr)} :
              /\ pdecRes' = c.value
              /\ precision' = pr
              /\ parsed' = [ret |-> c.ret, absorbed |-> c.absorbed, e |-> c.e,
                            d |-> c.d, eEnd |-> c.eEnd,
                            readBefore |-> c.readBefore, round |-> c.round,
                            before |-> b]
    /\ pc' = "returned"
    /\ op' = "NumberToDecimal"
    /\ UNCHANGED <<pdecL, pdecR, hr, shift0, end, number, args, ret>>

\* The caller has a decimal to convert to INT32.
LoadInt32 ==
    /\ pc = "idle"
    /\ \E d \in Int32Operands : args' = [f |-> "ToInt32", d |-> d]
    /\ pc' = "called"
    /\ UNCHANGED <<op, pdecL, pdecR, pdecRes, hr, shift0, end, number, precision,
                   parsed, ret>>

CallToInt32 ==
    /\ pc = "called"
    /\ args.f = "ToInt32"
    /\ ret' = ToInt32(args.d)
    /\ pc' = "returned"
    /\ op' = "ToInt32"
    /\ UNCHANGED <<pdecL, pdecR, pdecRes, hr, shift0, end, number, precision,
                   parsed, args>>

\* A caller (DecimalMul, DecimalAddSub) has a product or a sum to scale.
LoadScaleResult ==
    /\ pc = "idle"
    /\ \E in \in ScaleResultInputs :
          args' = [f |-> "ScaleResult", rgullRes |-> ScaleResultArray(in[1]),
                   iHiRes |-> ScaleResultHi(in[1]), iScale |-> in[2]]
    /\ pc' = "called"
    /\ UNCHANGED <<op, pdecL, pdecR, pdecRes, hr, shift0, end, number, precision,
                   parsed, ret>>

CallScaleResult ==
    /\ pc = "called"
    /\ args.f = "ScaleResult"
    /\ \E c \in {ScaleResult(args.rgullRes, args.iHiRes, args.iScale)} :
          ret' = [f |-> "ScaleResult", iScale |-> c.iScale, rgullRes |-> c.res]
    /\ pc' = "returned"
    /\ op' = "ScaleResult"
    /\ UNCHANGED <<pdecL, pdecR, pdecRes, hr, shift0, end, number, precision,
                   parsed, args>>

\* DecimalDiv is called and comes to its division loop, or ends before it.
EnterDivLoop ==
    /\ pc = "ready"
    /\ \E s \in IF ShiftsByZero(pdecR) THEN ShiftOutcomes ELSE {"none"} :
          /\ shift0' = s
          /\ args' = [f |-> "DecimalDiv"] @@ DivEnter(pdecL, pdecR, s)
    /\ pc' = "dividing"
    /\ op' = "Div"
    /\ UNCHANGED <<pdecL, pdecR, pdecRes, hr, end, number, precision, parsed, ret>>

\* One pass of the for (;;) loop.
DivPass ==
    /\ pc = "dividing"
    /\ args.st.hr = "running"
    /\ args' = DivPassOf(args)
    /\ UNCHANGED <<pc, op, pdecL, pdecR, pdecRes, hr, shift0, end, number,
                   precision, parsed, ret>>

\* The division loop has ended: the call returns an error, or stores the
\* quotient as it is, or goes on to take the powers of ten out of it.
LeaveDivLoop ==
    /\ pc = "dividing"
    /\ args.st.hr # "running"
    /\ end' = args.st
    /\ IF args.st.hr # "NOERROR"
       THEN /\ hr' = args.st.hr
            /\ pc' = IF args.st.hr = "DIVIDE_ERROR" THEN "faulted" ELSE "returned"
            /\ UNCHANGED <<pdecRes, ret>>
       ELSE IF args.st.fUnscale
       THEN /\ ret' = [f |-> "DecimalDiv", quo |-> args.st.quo,
                       iScale |-> args.st.iScale]
            /\ pc' = "unscaling"
            /\ UNCHANGED <<pdecRes, hr>>
       ELSE /\ hr' = "NOERROR"
            /\ pdecRes' = [pdecRes EXCEPT !.Hi32 = Word(args.st.quo, 2),
                                          !.scale = args.st.iScale % 256,
                                          !.sign = ResultSign(pdecL, pdecR),
                                          !.Lo64 = Word64(args.st.quo, 0)]
            /\ pc' = "returned"
            /\ UNCHANGED ret
    /\ UNCHANGED <<op, pdecL, pdecR, shift0, number, precision, parsed, args>>

\* One test of the while loop over 10^8: a pass that divides 10^8 out, or
\* the end of the loop, after which 10^4, 10^2 and 10 are tried and the
\* result is stored.
UnscalePass ==
    /\ pc = "unscaling"
    /\ \E u \in {[quo |-> ret.quo, iScale |-> ret.iScale]} :
       \E v \in {TryUnscale(u, 8)} :
          IF v # u
          THEN /\ ret' = [f |-> "DecimalDiv"] @@ v
               /\ UNCHANGED <<pc, pdecRes, hr>>
          ELSE \E w \in {UnscaleRest(u)} :
               /\ ret' = [f |-> "DecimalDiv"] @@ w
               /\ hr' = "NOERROR"
               /\ pdecRes' = [pdecRes EXCEPT !.Hi32 = Word(w.quo, 2),
                                             !.scale = w.iScale % 256,
                                             !.sign = ResultSign(pdecL, pdecR),
                                             !.Lo64 = Word64(w.quo, 0)]
               /\ pc' = "returned"
    /\ UNCHANGED <<op, pdecL, pdecR, shift0, end, number, precision, parsed, args>>

\* A caller has two 64-bit words and a carry or borrow to combine.
LoadCarry ==
    /\ pc = "idle"
    /\ \E f \in {"AddCarry64", "SubBorrow64"}, v \in CarryVariants,
          c \in {0, 1}, l \in CarryOperands, r \in CarryOperands :
          args' = [f |-> f, variant |-> v, carry |-> c, lhs |-> l, rhs |-> r]
    /\ pc' = "called"
    /\ UNCHANGED <<op, pdecL, pdecR, pdecRes, hr, shift0, end, number, precision,
                   parsed, ret>>

CallAddCarry64 ==
    /\ pc = "called"
    /\ args.f = "AddCarry64"
    /\ ret' = [f |-> "AddCarry64"]
              @@ AddCarry64Variant(args.variant, args.carry, args.lhs, args.rhs)
    /\ pc' = "returned"
    /\ op' = "AddCarry64"
    /\ UNCHANGED <<pdecL, pdecR, pdecRes, hr, shift0, end, number, precision,
                   parsed, args>>

CallSubBorrow64 ==
    /\ pc = "called"
    /\ args.f = "SubBorrow64"
    /\ ret' = [f |-> "SubBorrow64"]
              @@ SubBorrow64Variant(args.variant, args.carry, args.lhs, args.rhs)
    /\ pc' = "returned"
    /\ op' = "SubBorrow64"
    /\ UNCHANGED <<pdecL, pdecR, pdecRes, hr, shift0, end, number, precision,
                   parsed, args>>

\* A caller has a 128-bit value in two words and a shift count.
LoadShift ==
    /\ pc = "idle"
    /\ \E lo \in CarryOperands, hi \in CarryOperands, sh \in 0..63 :
          args' = [f |-> "ShiftLeft128", LowPart |-> lo, HighPart |-> hi,
                   Shift |-> sh]
    /\ pc' = "called"
    /\ UNCHANGED <<op, pdecL, pdecR, pdecRes, hr, shift0, end, number, precision,
                   parsed, ret>>

\* The generic ShiftLeft128; with a shift of 0 the build decides the value.
CallShiftLeft128 ==
    /\ pc = "called"
    /\ args.f = "ShiftLeft128"
    /\ \E s \in IF args.Shift = 0 THEN ShiftOutcomes ELSE {"none"} :
          /\ shift0' = s
          /\ ret' = [f |-> "ShiftLeft128",
                     res |-> ShiftLeft128(args.LowPart, args.HighPart,
                                          args.Shift, s)]
    /\ pc' = "returned"
    /\ op' = "ShiftLeft128"
    /\ UNCHANGED <<pdecL, pdecR, pdecRes, hr, end, number, precision, parsed, args>>

\* DecimalDiv has a quotient and its scale.
LoadSearchScale ==
    /\ pc = "idle"
    /\ \E q \in SearchScaleQuotients, s \in (-DEC_SCALE_MAX)..DEC_SCALE_MAX :
          args' = [f |-> "SearchScale64", rgulQuo |-> q, iScale |-> s]
    /\ pc' = "called"
    /\ UNCHANGED <<op, pdecL, pdecR, pdecRes, hr, shift0, end, number, precision,
                   parsed, ret>>

CallSearchScale64 ==
    /\ pc = "called"
    /\ args.f = "SearchScale64"
    /\ ret' = [f |-> "SearchScale64",
               iCurScale |-> SearchScale64(args.rgulQuo, args.iScale)]
    /\ pc' = "returned"
    /\ op' = "SearchScale64"
    /\ UNCHANGED <<pdecL, pdecR, pdecRes, hr, shift0, end, number, precision,
                   parsed, args>>

\* The caller is done with the result; the next call starts afresh.
Return ==
    /\ pc = "returned"
    /\ pc' = "idle"
    /\ op' = "none"
    /\ pdecL' = DECIMAL_SETZERO
    /\ pdecR' = DECIMAL_SETZERO
    /\ pdecRes' = Unwritten
    /\ hr' = "none"
    /\ shift0' = "none"
    /\ end' = NoDiv
    /\ number' = NoNumber
    /\ precision' = 0
    /\ parsed' = NotParsed
    /\ args' = NoCall
    /\ ret' = NoCall

Next == Load \/ CallMul \/ CallAdd \/ CallSub \/ CallDiv \/ Return

Spec == Init /\ [][Next]_vars

NextMul == Load \/ CallMul \/ Return
SpecMul == Init /\ [][NextMul]_vars

NextAddSub == Load \/ CallAdd \/ CallSub \/ Return
SpecAddSub == Init /\ [][NextAddSub]_vars

NextDiv == Load \/ CallDiv \/ Return
SpecDiv == Init /\ [][NextDiv]_vars

NextDivExamples == LoadExample \/ CallDiv \/ Return
SpecDivExamples == Init /\ [][NextDivExamples]_vars

NextNumber == LoadNumber \/ CallNumberToDecimal \/ Return
SpecNumber == Init /\ [][NextNumber]_vars

NextToInt32 == LoadInt32 \/ CallToInt32 \/ Return
SpecToInt32 == Init /\ [][NextToInt32]_vars

NextScaleResult == LoadScaleResult \/ CallScaleResult \/ Return
SpecScaleResult == Init /\ [][NextScaleResult]_vars

\* DecimalDiv pass by pass.
NextDivLoop ==
    Load \/ EnterDivLoop \/ DivPass \/ LeaveDivLoop \/ UnscalePass \/ Return
SpecDivLoop == Init /\ [][NextDivLoop]_vars

NextCarry == LoadCarry \/ CallAddCarry64 \/ CallSubBorrow64 \/ Return
SpecCarry == Init /\ [][NextCarry]_vars

NextShift == LoadShift \/ CallShiftLeft128 \/ Return
SpecShift == Init /\ [][NextShift]_vars

NextSearchScale == LoadSearchScale \/ CallSearchScale64 \/ Return
SpecSearchScale == Init /\ [][NextSearchScale]_vars

(***************************************************************************)
(* Properties of the operations, stated on the state a call leaves.        *)
(***************************************************************************)

\* The 96-bit mantissa of a DECIMAL.
Mant(d) == BigAdd(d.Lo64, BigShl(d.Hi32, 64))

\* The operation o has returned; it has returned success.
Returned(o) == pc = "returned" /\ op = o
Succeeded(o) == Returned(o) /\ hr = "NOERROR"

\* n / d rounded to the nearest integer, a tie going to the even one.
RoundHalfEven(n, d) ==
    LET qr == BigDivMod(n, d)
        twice == BigShl(qr[2], 1)
    IN  IF BigGt(twice, d) \/ (twice = d /\ IsOdd(qr[1]))
        THEN BigAdd(qr[1], BigOne)
        ELSE qr[1]

\* The mantissa of d brought to scale DEC_SCALE_MAX: equal for two DECIMALs
\* iff they are equal in magnitude.
Magnitude(d) == BigMul(Mant(d), Pow10(DEC_SCALE_MAX - d.scale))

\* Equal by value: the same magnitude, and the same sign unless both are zero.
EqualByValue(a, b) ==
    /\ Magnitude(a) = Magnitude(b)
    /\ (IsZero(Mant(a)) \/ a.sign = b.sign)

\* C1: whenever DecimalMul, DecimalAddSub or DecimalDiv returns success on
\* valid inputs (scale in 0..28, mantissa below 2^96), the value it has
\* written has a scale in 0..28 and a mantissa below 2^96.
C1_SuccessInRange ==
    (pc = "returned" /\ hr = "NOERROR") =>
        /\ pdecRes.scale \in 0..DEC_SCALE_MAX
        /\ BigLt(pdecRes.Hi32, W32)
        /\ BigLt(pdecRes.Lo64, W64)

\* A product of two 96-bit operands whose scales add up to more than 28 has
\* come back with scale 28.
C1_Witness ==
    /\ Succeeded("Mul")
    /\ ~IsZero(pdecL.Hi32) /\ ~IsZero(pdecR.Hi32)
    /\ pdecL.scale + pdecR.scale > DEC_SCALE_MAX
    /\ pdecRes.scale = DEC_SCALE_MAX

\* C2: DecimalDiv returns OVERFLOW whenever the quotient after the final
\* round-up does not fit in 96 bits: on a call that returns success the
\* Add96By32 at RoundUp has not carried out of the 96-bit quotient.
C2_RoundUpNeverCarries ==
    Succeeded("Div") => end.roundCarry = 0

\* C3 as stated: when DecimalMul or DecimalDiv returns success the sign of
\* the result is sign(L) XOR sign(R), on every path, those that return a
\* zero result included.
C3_SignIsXor ==
    (pc = "returned" /\ hr = "NOERROR" /\ op \in {"Mul", "Div"}) =>
        pdecRes.sign = XorSmall(pdecL.sign, pdecR.sign)

\* DecimalMul of l and r leaves by its ReturnZero label: on the fast path
\* when the scales add up to more than 28 + 19, on the slow path when the
\* product is zero.
MulReturnsZero(l, r) ==
    IF IsZero(l.Hi32) /\ IsZero(r.Hi32)
    THEN /\ BigLt(BigMul(l.Lo64, r.Lo64), W64)
         /\ l.scale + r.scale > DEC_SCALE_MAX + POWER10_MAX64
    ELSE IsZero(Mant(l)) \/ IsZero(Mant(r))

\* C3, amended: when DecimalMul or DecimalDiv returns success the sign of
\* the result is sign(L) XOR sign(R), except where DecimalMul leaves by its
\* ReturnZero label: the result is then the DECIMAL of all zero bits, its
\* sign clear whatever the signs of the operands.
C3_SignIsXorButReturnZero ==
    (pc = "returned" /\ hr = "NOERROR" /\ op \in {"Mul", "Div"}) =>
        IF op = "Mul" /\ MulReturnsZero(pdecL, pdecR)
        THEN pdecRes = DECIMAL_SETZERO
        ELSE pdecRes.sign = XorSmall(pdecL.sign, pdecR.sign)

\* DecimalMul has left by ReturnZero with operands of different signs.
C3_Witness ==
    /\ Succeeded("Mul")
    /\ MulReturnsZero(pdecL, pdecR)
    /\ pdecL.sign # pdecR.sign
    /\ pdecRes.sign = 0

\* C4: on the fast path of DecimalMul (both high words zero, the product
\* below 2^64), with iScale = scale(L) + scale(R): for iScale <= 28 the
\* result is the exact product at scale iScale; for 28 < iScale <= 47 it
\* is the product divided by 10^(iScale - 28), rounded half to even, at
\* scale 28; for iScale > 47 it is zero.
C4_FastPath ==
    (/\ Returned("Mul")
     /\ IsZero(pdecL.Hi32) /\ IsZero(pdecR.Hi32)
     /\ BigLt(BigMul(pdecL.Lo64, pdecR.Lo64), W64)) =>
        LET iScale == pdecL.scale + pdecR.scale
            product == BigMul(pdecL.Lo64, pdecR.Lo64)
        IN  /\ hr = "NOERROR"
            /\ IF iScale <= DEC_SCALE_MAX
               THEN Mant(pdecRes) = product /\ pdecRes.scale = iScale
               ELSE IF iScale <= DEC_SCALE_MAX + POWER10_MAX64
               THEN /\ Mant(pdecRes) =
                          RoundHalfEven(product, Pow10(iScale - DEC_SCALE_MAX))
                    /\ pdecRes.scale = DEC_SCALE_MAX
               ELSE IsZero(Mant(pdecRes))

\* 0.5 times 5e-28: the product 25 at scale 29 is a tie, and has come back
\* as 2 at scale 28.
C4_Witness ==
    /\ Succeeded("Mul")
    /\ Mant(pdecL) = Big(5) /\ Mant(pdecR) = Big(5)
    /\ pdecL.scale + pdecR.scale = DEC_SCALE_MAX + 1
    /\ Mant(pdecRes) = Big(2)
    /\ pdecRes.scale = DEC_SCALE_MAX

\* C5: DecimalMul returns OVERFLOW exactly when the exact product cannot be
\* brought to a 96-bit mantissa with a scale >= 0: never when the product
\* rounded half to even at some scale in 0..min(28, scale(L) + scale(R))
\* is below 2^96, always otherwise, as for the greatest mantissa times 2,
\* both at scale 0.
C5_OverflowIffNoFit ==
    Returned("Mul") =>
        LET sum == pdecL.scale + pdecR.scale
            product == BigMul(Mant(pdecL), Mant(pdecR))
            fits == \E s \in 0..Min(DEC_SCALE_MAX, sum) :
                       BigLt(RoundHalfEven(product, Pow10(sum - s)), P2(96))
        IN  /\ (hr = "DISP_E_OVERFLOW") <=> ~fits
            /\ (/\ Mant(pdecL) = BigSub(P2(96), BigOne) /\ pdecL.scale = 0
                /\ Mant(pdecR) = Big(2) /\ pdecR.scale = 0)
               => hr = "DISP_E_OVERFLOW"

\* The greatest mantissa times 2, both at scale 0, has overflowed.
C5_Witness ==
    /\ Returned("Mul")
    /\ Mant(pdecL) = BigSub(P2(96), BigOne) /\ pdecL.scale = 0
    /\ Mant(pdecR) = Big(2) /\ pdecR.scale = 0
    /\ hr = "DISP_E_OVERFLOW"

\* C6: DecimalMul(L, R) and DecimalMul(R, L) return the same status and, on
\* success, the same mantissa, scale and sign.
C6_MulCommutes ==
    Returned("Mul") =>
        LET swapped == DecimalMul(pdecR, pdecL, Unwritten)
        IN  /\ swapped.hr = hr
            /\ hr = "NOERROR" =>
                  /\ Mant(swapped.res) = Mant(pdecRes)
                  /\ swapped.res.scale = pdecRes.scale
                  /\ swapped.res.sign = pdecRes.sign

\* A 96-bit operand times a shorter one of another scale and sign, neither
\* zero, has been multiplied.
C6_Witness ==
    /\ Succeeded("Mul")
    /\ ~IsZero(pdecL.Hi32) /\ IsZero(pdecR.Hi32) /\ ~IsZero(pdecR.Lo64)
    /\ pdecL.scale # pdecR.scale
    /\ pdecL.sign # pdecR.sign
    /\ ~IsZero(Mant(pdecRes))

\* C7: DecimalAddSub(L, R, add) and DecimalAddSub(R, L, add) return the same
\* status and, on success, results equal by value: the same mantissa and
\* scale, and the same sign unless the results are zero.
C7_AddCommutes ==
    Returned("Add") =>
        LET swapped == DecimalAdd(pdecR, pdecL, Unwritten)
        IN  /\ swapped.hr = hr
            /\ hr = "NOERROR" =>
                  /\ Mant(swapped.res) = Mant(pdecRes)
                  /\ swapped.res.scale = pdecRes.scale
                  /\ (IsZero(Mant(pdecRes)) \/ swapped.res.sign = pdecRes.sign)

\* Two operands of different scales and signs, neither zero, have been added.
C7_Witness ==
    /\ Succeeded("Add")
    /\ pdecL.scale > pdecR.scale
    /\ pdecL.sign # pdecR.sign
    /\ ~IsZero(Mant(pdecL)) /\ ~IsZero(Mant(pdecR))
    /\ ~IsZero(Mant(pdecRes))

\* C8 as stated: for every L and every zero Z of any scale, Add(L, Z)
\* succeeds, equals L by value, and has the scale max(scale(L), scale(Z)).
C8_AddZeroScaleIsMax ==
    (Returned("Add") /\ IsZero(Mant(pdecR))) =>
        /\ hr = "NOERROR"
        /\ EqualByValue(pdecRes, pdecL)
        /\ pdecRes.scale = Max(pdecL.scale, pdecR.scale)

\* C8, amended: for every L and every zero Z of any scale, Add(L, Z)
\* succeeds and equals L by value; its scale is max(scale(L), scale(Z))
\* when the mantissa of L brought to that scale is below 2^96, and is less
\* than that otherwise.
C8_AddZeroScaleIsMaxIfItFits ==
    (Returned("Add") /\ IsZero(Mant(pdecR))) =>
        LET scale == Max(pdecL.scale, pdecR.scale)
            fits == BigLt(BigMul(Mant(pdecL), Pow10(scale - pdecL.scale)), P2(96))
        IN  /\ hr = "NOERROR"
            /\ EqualByValue(pdecRes, pdecL)
            /\ IF fits THEN pdecRes.scale = scale ELSE pdecRes.scale < scale

\* A zero of a greater scale has been added to an L that does not fit 96
\* bits at that scale.
C8_Witness ==
    /\ Succeeded("Add")
    /\ IsZero(Mant(pdecR)) /\ ~IsZero(Mant(pdecL))
    /\ pdecR.scale > pdecL.scale
    /\ pdecRes.scale < pdecR.scale

\* C9: for every L, DecimalAddSub(L, L, subtract) succeeds and returns a
\* zero mantissa.
C9_SubSelfIsZero ==
    (Returned("Sub") /\ pdecL = pdecR) =>
        hr = "NOERROR" /\ IsZero(Mant(pdecRes))

\* A negative L that is not zero has been subtracted from itself.
C9_Witness ==
    /\ Succeeded("Sub")
    /\ pdecL = pdecR
    /\ ~IsZero(Mant(pdecL))
    /\ pdecL.sign = DECIMAL_NEG

\* 0.5: mantissa 5, scale 1, positive.
Half == MakeDecimal(Big(5), 1, 0)

\* C10 as stated: 0.5 - 0.5 is a zero with scale 2 and a non-negative sign.
C10_HalfMinusHalfScale2 ==
    (Returned("Sub") /\ pdecL = Half /\ pdecR = Half) =>
        /\ hr = "NOERROR"
        /\ IsZero(Mant(pdecRes))
        /\ pdecRes.scale = 2
        /\ pdecRes.sign = 0

\* C10, amended: 0.5 - 0.5 is a zero with scale 1, the scale of both
\* operands, and a non-negative sign.
C10_HalfMinusHalfScale1 ==
    (Returned("Sub") /\ pdecL = Half /\ pdecR = Half) =>
        /\ hr = "NOERROR"
        /\ IsZero(Mant(pdecRes))
        /\ pdecRes.scale = 1
        /\ pdecRes.sign = 0

\* 0.5 has been subtracted from 0.5.
C10_Witness ==
    /\ Succeeded("Sub")
    /\ pdecL = Half /\ pdecR = Half
    /\ IsZero(Mant(pdecRes))

\* Whether an Add or Sub call adds the magnitudes of l and r: the signs are
\* equal for an addition, different for a subtraction.
AddsMagnitudes(o, l, r) == (l.sign = r.sign) <=> (o = "Add")

\* The magnitude of the exact result of the Add or Sub call o on l and r,
\* as a mantissa at scale max(scale(l), scale(r)).
ExactSum(o, l, r) ==
    LET scale == Max(l.scale, r.scale)
        a == BigMul(Mant(l), Pow10(scale - l.scale))
        b == BigMul(Mant(r), Pow10(scale - r.scale))
    IN  IF AddsMagnitudes(o, l, r) THEN BigAdd(a, b)
        ELSE IF BigGe(a, b) THEN BigSub(a, b) ELSE BigSub(b, a)

\* The scales in 0..scale at which the mantissa n of that scale, rounded
\* half to even, is below 2^96.
FittingScales(n, scale) ==
    { s \in 0..scale : BigLt(RoundHalfEven(n, Pow10(scale - s)), P2(96)) }

\* The greatest member of a non-empty set of integers.
Greatest(S) == CHOOSE s \in S : \A t \in S : t <= s

\* C11: for operands of unequal scales, when the exact sum at scale
\* max(scale(L), scale(R)) fits in 96 bits DecimalAddSub returns exactly
\* that sum at that scale; when it does not, the result is the exact sum
\* rounded half to even at the largest scale at which it fits, or OVERFLOW
\* if it fits at no scale >= 0.
C11_UnequalScaleSum ==
    (pc = "returned" /\ op \in {"Add", "Sub"} /\ pdecL.scale # pdecR.scale) =>
        LET scale == Max(pdecL.scale, pdecR.scale)
            sum == ExactSum(op, pdecL, pdecR)
            fitting == FittingScales(sum, scale)
        IN  IF fitting = {}
            THEN hr = "DISP_E_OVERFLOW"
            ELSE /\ hr = "NOERROR"
                 /\ pdecRes.scale = Greatest(fitting)
                 /\ Mant(pdecRes) =
                        RoundHalfEven(sum, Pow10(scale - Greatest(fitting)))

\* An addition of unequal scales has come back rounded, at a scale below
\* the greater of the two.
C11_Witness ==
    /\ Succeeded("Add")
    /\ pdecL.scale # pdecR.scale
    /\ pdecL.sign = pdecR.sign
    /\ pdecRes.scale < Max(pdecL.scale, pdecR.scale)
    /\ BigMul(Mant(pdecRes), Pow10(Max(pdecL.scale, pdecR.scale) - pdecRes.scale))
           # ExactSum("Add", pdecL, pdecR)

\* C12: an addition of magnitudes of one scale whose sum carries out of 96
\* bits returns OVERFLOW if that scale is 0; otherwise the scale of the
\* result is the common scale less 1 and its mantissa is the 97-bit sum
\* divided by ten, rounded half to even, which is itself below 2^96.
C12_CarryDividesByTen ==
    (/\ pc = "returned" /\ op \in {"Add", "Sub"}
     /\ pdecL.scale = pdecR.scale
     /\ AddsMagnitudes(op, pdecL, pdecR)
     /\ BigGe(BigAdd(Mant(pdecL), Mant(pdecR)), P2(96))) =>
        LET tenth == RoundHalfEven(BigAdd(Mant(pdecL), Mant(pdecR)), Big(10))
        IN  IF pdecL.scale = 0
            THEN hr = "DISP_E_OVERFLOW"
            ELSE /\ hr = "NOERROR"
                 /\ pdecRes.scale = pdecL.scale - 1
                 /\ BigLt(tenth, P2(96))
                 /\ Mant(pdecRes) = tenth

\* A sum of one scale has carried out of 96 bits and its tenth has been
\* rounded up.
C12_Witness ==
    /\ Succeeded("Add")
    /\ pdecL.scale = pdecR.scale
    /\ pdecL.sign = pdecR.sign
    /\ BigGe(BigAdd(Mant(pdecL), Mant(pdecR)), P2(96))
    /\ pdecRes.scale = pdecL.scale - 1
    /\ BigGt(BigMulSmall(Mant(pdecRes), 10), BigAdd(Mant(pdecL), Mant(pdecR)))

\* C13: DecimalDiv returns DIV_BY_ZERO if and only if the 96-bit mantissa
\* of the divisor is zero, for every dividend and whatever the scale and
\* sign of the divisor.
C13_DivByZeroIffZeroDivisor ==
    (op = "Div" /\ pc \in {"returned", "faulted"}) =>
        ((hr = "DISP_E_DIVBYZERO") <=> IsZero(Mant(pdecR)))

\* A dividend that is not zero has been divided by a negative zero of
\* scale 28.
C13_Witness ==
    /\ Returned("Div")
    /\ hr = "DISP_E_DIVBYZERO"
    /\ ~IsZero(Mant(pdecL))
    /\ IsZero(Mant(pdecR))
    /\ pdecR.scale = DEC_SCALE_MAX
    /\ pdecR.sign = DECIMAL_NEG

\* The exact quotient of a division that has returned, at the scale
\* iScale the division loop ended with: quotient and remainder of
\* L * 10^(iScale - (scale(L) - scale(R))) by R, on the mantissas.
QuotientAtFinalScale ==
    BigDivMod(BigMul(Mant(pdecL),
                     Pow10(end.iScale - (pdecL.scale - pdecR.scale))),
              Mant(pdecR))

\* 28 threes.
Threes == BigDivMod(Pow10(DEC_SCALE_MAX), Big(3))[1]

\* C14: when the quotient L/R is not exact at the scale the division ends
\* with (the remainder is not zero when SearchScale returns 0), DecimalDiv
\* returns the quotient at that scale rounded half to even: it rounds up
\* iff twice the remainder exceeds the divisor, or equals it and the
\* quotient is odd; 1 / 3 is 3333333333333333333333333333 at scale 28.
C14_InexactRoundsHalfEven ==
    Succeeded("Div") =>
        LET qr == QuotientAtFinalScale
            twice == BigShl(qr[2], 1)
            up == \/ BigGt(twice, Mant(pdecR))
                  \/ (twice = Mant(pdecR) /\ IsOdd(qr[1]))
        IN  /\ ~IsZero(qr[2]) =>
                  /\ end.roundUp <=> up
                  /\ BigMul(Mant(pdecRes), Pow10(end.iScale - pdecRes.scale))
                         = IF up THEN BigAdd(qr[1], BigOne) ELSE qr[1]
            /\ (/\ Mant(pdecL) = BigOne /\ pdecL.scale = 0
                /\ Mant(pdecR) = Big(3) /\ pdecR.scale = 0) =>
                  Mant(pdecRes) = Threes /\ pdecRes.scale = DEC_SCALE_MAX

\* 1.0 (mantissa 10, scale 1) and 1 (mantissa 1, scale 0).
OnePointZero == MakeDecimal(Big(10), 1, 0)
One == MakeDecimal(BigOne, 0, 0)

\* C15 as stated: 1.0 divided by 1 is mantissa 1 with scale 0, not
\* mantissa 10 with scale 1.
C15_OnePointZeroByOneIsOne ==
    (Returned("Div") /\ pdecL = OnePointZero /\ pdecR = One) =>
        /\ hr = "NOERROR"
        /\ Mant(pdecRes) = BigOne
        /\ pdecRes.scale = 0

\* C15, amended: 1.0 divided by 1 is mantissa 10 with scale 1: the division
\* leaves no remainder at its first step, so fUnscale stays false and no
\* trailing zero is taken off.
C15_OnePointZeroByOneIsOnePointZero ==
    (Returned("Div") /\ pdecL = OnePointZero /\ pdecR = One) =>
        /\ hr = "NOERROR"
        /\ Mant(pdecRes) = Big(10)
        /\ pdecRes.scale = 1
        /\ ~end.fUnscale

\* 1.0 has been divided by 1.
C15_Witness ==
    /\ Succeeded("Div")
    /\ pdecL = OnePointZero /\ pdecR = One
    /\ end.passes = 0

\* C16: whenever a DecimalDiv call has seen a remainder that is not zero,
\* the trim after the division leaves a result whose scale is 0 or whose
\* mantissa is not divisible by 10, and does not change the value: the
\* mantissa it leaves, times 10^k, is the quotient the division loop ended
\* with, the scale is k less than the scale the loop ended with, and is
\* not below 0.
C16_TrimIsShortestAndExact ==
    (Succeeded("Div") /\ end.fUnscale) =>
        /\ pdecRes.scale \in 0..end.iScale
        /\ pdecRes.scale = 0 \/ BigDivModSmall(Mant(pdecRes), 10)[2] # 0
        /\ BigMul(Mant(pdecRes), Pow10(end.iScale - pdecRes.scale)) = end.quo

\* A quotient that had a remainder on the way has had trailing zeros taken
\* off, down to a scale that is not 0.
C16_Witness ==
    /\ Succeeded("Div")
    /\ end.fUnscale
    /\ pdecRes.scale > 0
    /\ pdecRes.scale < end.iScale
    /\ ~IsZero(Mant(pdecRes))

\* C17 as stated: when DecimalMul, DecimalAddSub or DecimalDiv returns an
\* error (OVERFLOW or DIV_BY_ZERO) it has not written the result slot at
\* all: every field holds the value it had before the call.
C17_ErrorLeavesResultUnwritten ==
    (pc = "returned" /\ hr # "NOERROR") => pdecRes = Unwritten

\* C17, amended: when DecimalMul or DecimalDiv returns an error it has not
\* written the result slot at all.  When DecimalAddSub returns OVERFLOW it
\* has: wReserved alone holds the value it had before the call; the sign is
\* that of the left operand, the mantissa is the low 96 bits of the sum
\* that did not fit, and the scale is 0 if the operands have one scale and
\* 255 if they do not.
C17_ErrorLeavesResultUnwrittenButAddSub ==
    (pc = "returned" /\ hr # "NOERROR") =>
        IF op \in {"Mul", "Div"}
        THEN pdecRes = Unwritten
        ELSE /\ hr = "DISP_E_OVERFLOW"
             /\ pdecRes.wReserved = Unwritten.wReserved
             /\ pdecRes.sign = pdecL.sign
             /\ pdecRes.scale = IF pdecL.scale = pdecR.scale THEN 0 ELSE 255
             /\ Mant(pdecRes) = BigModP2(ExactSum(op, pdecL, pdecR), 96)

\* An addition of operands of different scales has overflowed and has left
\* the scale 255 in the result slot.
C17_Witness ==
    /\ Returned("Add")
    /\ hr = "DISP_E_OVERFLOW"
    /\ pdecL.scale # pdecR.scale
    /\ pdecRes.scale = 255
    /\ pdecRes # Unwritten

\* The integer the first n digits of a digit string write.
RECURSIVE DigitsValue(_, _)
DigitsValue(digits, n) ==
    IF n = 0 THEN BigZero
    ELSE With(DigitsValue(digits, n - 1), LAMBDA v :
              BigAdd(BigMulSmall(v, 10), Big(digits[n])))

\* NumberToDecimal has returned; it has returned 1.
Parsed == Returned("NumberToDecimal")
ParsedTo(m, sc, sg) ==
    /\ parsed.ret = 1
    /\ pdecRes.wReserved = 0
    /\ Mant(pdecRes) = m
    /\ pdecRes.scale = sc
    /\ pdecRes.sign = sg

ExampleDigits == HeadList[4]

\* C18, as stated: NumberToDecimal called with the digits
\* 1999021176470588235294117647, the exponent -21 in number->scale and the
\* sign 0 returns 1 and the mantissa 1999021176470588235294117647 with
\* scale 21.
C18_ExponentMinus21GivesScale21 ==
    (Parsed /\ number.digits = ExampleDigits /\ number.scale = -21 /\ number.sign = 0)
        => ParsedTo(DigitsValue(ExampleDigits, 28), 21, 0)

\* C18, amended: number->scale is the place of the decimal point, not the
\* exponent of the digits read as an integer.  With the digits
\* 1999021176470588235294117647 and sign 0, the scale 7 returns 1 and the
\* mantissa 1999021176470588235294117647 with scale 21; the scale -21
\* returns 1 with the first seven digits alone absorbed, which leave e at
\* -28: the mantissa is 1999021 or zero and the scale is 27 or 28.
C18_PointAfterSevenDigitsGivesScale21 ==
    (Parsed /\ number.digits = ExampleDigits /\ number.sign = 0) =>
        /\ number.scale = 7 => ParsedTo(DigitsValue(ExampleDigits, 28), 21, 0)
        /\ number.scale = -21 =>
              /\ parsed.ret = 1
              /\ parsed.absorbed = 7
              /\ parsed.e = -28
              /\ Mant(pdecRes) \in {BigZero, DigitsValue(ExampleDigits, 7)}
              /\ pdecRes.scale \in {27, 28}

\* The example's digits have been converted with the decimal point after
\* the seventh, all 28 of them absorbed.
C18_Witness ==
    /\ Parsed
    /\ number.digits = ExampleDigits
    /\ number.scale = 7
    /\ number.sign = 0
    /\ parsed.ret = 1
    /\ parsed.absorbed = 28
    /\ pdecRes.scale = 21

\* NumberToDecimal has come to its rounding step: there are digits and the
\* scale has not been rejected.
CameToRounding ==
    Parsed /\ number.digits # << >> /\ number.scale <= precision

\* The first dropped digit, 0 if no digit is dropped, and whether a digit
\* that is not zero follows it.
FirstDropped ==
    IF parsed.absorbed < Len(number.digits)
    THEN number.digits[parsed.absorbed + 1] ELSE 0
NonZeroFollows ==
    \E i \in (parsed.absorbed + 2)..Len(number.digits) : number.digits[i] # 0

\* Whether the last absorbed digit is odd; with no digit absorbed the
\* mantissa is zero, which is even.
LastAbsorbedIsOdd ==
    parsed.absorbed >= 1 /\ number.digits[parsed.absorbed] % 2 = 1

\* Whether rounding half to even rounds the absorbed digits up.
HalfEvenRoundsUp ==
    \/ FirstDropped > 5
    \/ FirstDropped = 5 /\ (LastAbsorbedIsOdd \/ NonZeroFollows)

\* C19: NumberToDecimal rounds the dropped digits half to even, whatever
\* the length of the digit string: it rounds the absorbed digits up if and
\* only if the first dropped digit is above 5, or is 5 after an odd last
\* absorbed digit, or is 5 after an even one with a digit that is not zero
\* after it.
C19_RoundsHalfEvenAtAnyLength ==
    CameToRounding => (parsed.round <=> HalfEvenRoundsUp)

\* The mantissa the absorbed digits make: the digits, a zero for each pass
\* of the loop that found no digit, and one more if rounded up; past
\* 2^96 - 1 it is a tenth of 2^96, rounded.
AbsorbedMantissa ==
    With(BigAdd(BigMul(DigitsValue(number.digits, parsed.absorbed),
                       Pow10((number.scale - parsed.e) - parsed.absorbed)),
                IF parsed.round THEN BigOne ELSE BigZero), LAMBDA m :
         IF m = P2(96) THEN RoundHalfEven(m, Big(10)) ELSE m)

\* C20, as stated: when the exponent after the absorption of the digits is
\* at most -28, the result is a zero mantissa with scale 28; every result
\* of a call that succeeds has its scale in 0..28.
C20_ExponentAtMostMinus28IsZeroScale28 ==
    (Parsed /\ parsed.ret = 1) =>
        /\ parsed.e <= -28 => (IsZero(Mant(pdecRes)) /\ pdecRes.scale = 28)
        /\ pdecRes.scale \in 0..28

\* C20, amended: let e be the exponent after the absorption of the digits
\* and the rounding, which raises it by one when the mantissa passes
\* 2^96 - 1.  When e is at most -DECIMAL_PRECISION the result is a zero
\* mantissa with scale DECIMAL_PRECISION - 1; otherwise the result is the
\* mantissa absorbed and rounded, with scale -e.  Every result of a call
\* that succeeds has its scale in 0..28.
C20_ExponentAtMostMinusPrecisionIsZero ==
    (Parsed /\ parsed.ret = 1) =>
        /\ IF parsed.eEnd <= -precision
           THEN IsZero(Mant(pdecRes)) /\ pdecRes.scale = precision - 1
           ELSE Mant(pdecRes) = AbsorbedMantissa /\ pdecRes.scale = -parsed.eEnd
        /\ pdecRes.scale \in 0..DEC_SCALE_MAX

\* Digits that are not zero have been absorbed and e has ended at or below
\* -DECIMAL_PRECISION: the result is zero with scale DECIMAL_PRECISION - 1.
C20_Witness ==
    /\ Parsed
    /\ parsed.ret = 1
    /\ parsed.absorbed >= 1
    /\ ~IsZero(DigitsValue(number.digits, parsed.absorbed))
    /\ parsed.eEnd <= -precision
    /\ IsZero(Mant(pdecRes))
    /\ pdecRes.scale = precision - 1

\* The mantissa before the rounding step: the absorbed digits and a zero
\* for each pass of the loop that found no digit.
UnroundedMantissa ==
    BigMul(DigitsValue(number.digits, parsed.absorbed),
           Pow10((number.scale - parsed.e) - parsed.absorbed))

\* The round up has taken the mantissa from 2^96 - 1 to 2^96, which wraps
\* to zero.
RoundUpWrapped ==
    CameToRounding /\ parsed.round /\ UnroundedMantissa = BigSub(P2(96), BigOne)

\* C21, as stated: when the round up wraps the mantissa to zero, the
\* mantissa becomes exactly 10^28 and the exponent is raised by one; the
\* new mantissa is the unwrapped value, 2^96, divided by ten and rounded
\* to nearest.
C21_WrapGivesTenToThe28 ==
    RoundUpWrapped =>
        /\ parsed.eEnd = parsed.e + 1
        /\ parsed.ret = 1 =>
              /\ Mant(pdecRes) = Pow10(28)
              /\ Mant(pdecRes) = RoundHalfEven(P2(96), Big(10))

\* C21, amended: when the round up wraps the mantissa to zero, the
\* mantissa becomes 0x19999999_99999999_9999999A, which is
\* 7922816251426433759354395034 and not 10^28, and the exponent is raised
\* by one; the new mantissa is the unwrapped value, 2^96, divided by ten
\* and rounded to nearest.  The call returns 0 if the raised exponent is
\* positive, and else stores the new mantissa with the raised exponent's
\* scale.
C21_WrapGivesTenthOfTwoToThe96 ==
    RoundUpWrapped =>
        /\ parsed.eEnd = parsed.e + 1
        /\ parsed.ret = (IF parsed.eEnd > 0 THEN 0 ELSE 1)
        /\ parsed.ret = 1 =>
              /\ Mant(pdecRes) = BigAdd(DigitsValue(HeadList[5], 28), BigOne)
              /\ Mant(pdecRes) = RoundHalfEven(P2(96), Big(10))
              /\ pdecRes.scale = -parsed.eEnd

\* A round up has wrapped the mantissa and the call has returned 1.
C21_Witness ==
    /\ RoundUpWrapped
    /\ parsed.ret = 1
    /\ parsed.absorbed = 29
    /\ Mant(pdecRes) = RoundHalfEven(P2(96), Big(10))

\* The 96-bit mantissa in the words of d.
Mant96(d) == BigAdd(Make64(d.LO32, d.MID32), BigShl(d.HI32, 64))

\* C29: the loop of NumberToDecimal that absorbs the digits never wraps
\* the mantissa modulo 2^96.  The mantissa only grows from step to step,
\* so no step has wrapped exactly when the 96 bits the loop leaves are the
\* absorbed digits, with a zero for each pass that found no digit, as an
\* integer without bound; that integer is then at most 2^96 - 1.
C29_AbsorptionNeverWraps ==
    CameToRounding =>
        /\ Mant96(parsed.d) = UnroundedMantissa
        /\ BigLt(UnroundedMantissa, P2(96))

\* The loop has taken its largest step, from 0x19999999_99999999_99999999
\* and the digit 5 to 2^96 - 1.
C29_Witness ==
    /\ CameToRounding
    /\ parsed.absorbed = 29
    /\ Mant96(parsed.d) = BigSub(P2(96), BigOne)

\* C30: the test of the digit before the rounding digit, *(p-2), reads a
\* place inside the digit string alone, for every digit string that is
\* not empty and every exponent: it never reads the character before
\* digits[0].
C30_TieTestReadsInsideDigits ==
    CameToRounding => ~parsed.readBefore

\* A call of the function f alone has returned.
Called(f) == pc = "returned" /\ args.f = f /\ ret.f = f

\* The integer part of d, truncated toward zero, without its sign.
TruncatedMagnitude(d) == BigDivMod(Mant(d), Pow10(d.scale))[1]

\* C22: ToInt32 returns the integer part of d truncated toward zero
\* whenever that integer lies in -2^31 .. 2^31 - 1, and throws the
\* overflow otherwise; the rounding to 0 digits it runs first changes
\* neither the integer nor whether the overflow is thrown.
C22_ToInt32Truncates ==
    Called("ToInt32") =>
        With(TruncatedMagnitude(args.d), LAMBDA t :
            IF args.d.sign = 0 /\ BigLt(t, P2(31))
            THEN ret.thrown = "none" /\ ret.i = Int31(t)
            ELSE IF args.d.sign # 0 /\ BigLe(t, P2(31))
            THEN ret.thrown = "none" /\ ret.i = INT32(BigModP2(BigSub(W32, t), 32))
            ELSE ret.thrown # "none")

\* The magnitude in a ScaleResult array, and its low 96 bits.
ArrayValue(rgullRes) ==
    BigAdd(rgullRes[1], BigAdd(BigShl(rgullRes[2], 64), BigShl(rgullRes[3], 128)))
Low96(rgullRes) == BigAdd(rgullRes[1], BigShl(low32(rgullRes[2]), 64))

\* Of the call of ScaleResult under way: the magnitude given, the place of
\* its top bit above bit 96, and the estimate the code makes of it: 0 for
\* a top bit below bit 96, and else what is planned at the scale
\* DEC_SCALE_MAX + 1, where the estimate is neither refused nor raised.
GivenMagnitude == ArrayValue(args.rgullRes)
TopBit == BitLen(GivenMagnitude) - 1 - 96
CodeEstimate ==
    IF TopBit < 0 THEN 0
    ELSE ScaleEstimate(args.rgullRes, args.iHiRes, DEC_SCALE_MAX + 1)

\* The power of ten the code plans to divide by, the least power from
\* there on that leaves nothing above 96 bits, and that power with one
\* more if the rounded quotient is 2^96.
PlannedPower == Max(CodeEstimate, args.iScale - DEC_SCALE_MAX)
ZeroingPower ==
    IF BigLt(BigDivMod(GivenMagnitude, Pow10(PlannedPower))[1], P2(96))
    THEN PlannedPower ELSE PlannedPower + 1
FinalPower ==
    IF RoundHalfEven(GivenMagnitude, Pow10(ZeroingPower)) = P2(96)
    THEN ZeroingPower + 1 ELSE ZeroingPower

\* C23: the estimate of ScaleResult is a safe lower bound.  For a top bit
\* b places above bit 96, 10^(est - 1) <= 2^b; where the estimate exceeds
\* the scale and the call returns -1, the magnitude divided by the
\* greatest power of ten the scale allows still has bits above 96; and
\* after the division by the planned power of ten at most one more
\* division by ten leaves nothing above 96 bits, the call dividing by
\* that power (and by ten once more only where rounding carries).
C23_EstimateIsSafeLowerBound ==
    (Called("ScaleResult") /\ TopBit >= 0) =>
        /\ CodeEstimate = ((TopBit * 77) \div 256) + 1
        /\ BigLe(Pow10(CodeEstimate - 1), P2(TopBit))
        /\ CodeEstimate > args.iScale =>
              /\ ret.iScale = -1
              /\ BigGe(BigDivMod(GivenMagnitude, Pow10(args.iScale))[1], P2(96))
        /\ CodeEstimate <= args.iScale =>
              /\ BigLt(BigDivMod(GivenMagnitude, Pow10(ZeroingPower))[1], P2(96))
              /\ ret.iScale # -1 => args.iScale - ret.iScale = FinalPower
              /\ ret.iScale = -1 => FinalPower > args.iScale

\* A magnitude above 96 bits has been divided by the estimated power of
\* ten, and by ten once more to leave nothing above 96 bits.
C23_Witness ==
    /\ Called("ScaleResult")
    /\ TopBit >= 0
    /\ PlannedPower = CodeEstimate
    /\ ZeroingPower = CodeEstimate + 1
    /\ ret.iScale # -1
    /\ args.iScale - ret.iScale = CodeEstimate + 1

\* C24: where ScaleResult succeeds it returns a scale s in 0..28 and
\* leaves, in the low 96 bits, the magnitude divided by 10^(iScale - s) and
\* rounded half to even on all that the divisions have dropped; where the
\* round up carries out of 96 bits it divides by ten once more; and it
\* returns -1 exactly when the scale would go below 0.
C24_ScaleResultRoundsHalfEven ==
    Called("ScaleResult") =>
        /\ ret.iScale # -1 =>
              /\ ret.iScale \in 0..DEC_SCALE_MAX
              /\ args.iScale - ret.iScale = FinalPower
              /\ Low96(ret.rgullRes) =
                     RoundHalfEven(GivenMagnitude, Pow10(args.iScale - ret.iScale))
        /\ ret.iScale = -1 <=> FinalPower > args.iScale

\* A tie between two even-odd neighbours has been rounded up to 2^96 and
\* divided by ten once more.
C24_Witness ==
    /\ Called("ScaleResult")
    /\ ret.iScale # -1
    /\ args.iScale - ret.iScale = ZeroingPower + 1
    /\ Low96(ret.rgullRes) = RoundHalfEven(P2(96), Big(10))

\* The largest k in 0..19 with q * 10^k < 2^96 and s + k <= 28.
LargestPower(q, s) ==
    Greatest({ k \in 0..19 : BigLt(BigMul(q, Pow10(k)), P2(96)) /\ s + k <= 28 })

\* C25: for a quotient q that is not zero and a scale s in -28..28,
\* SearchScale64 returns the largest k in 0..19 with q * 10^k < 2^96 and
\* s + k <= 28, but -1 where that k is below 19 and s + k < 0; and every
\* PowerOvfl[k] is (2^96 - 1) / 10^k rounded down.
C25_SearchScaleIsLargestPower ==
    Called("SearchScale64") =>
        /\ With(LargestPower(args.rgulQuo, args.iScale), LAMBDA k :
               ret.iCurScale = IF k < 19 /\ args.iScale + k < 0 THEN -1 ELSE k)
        /\ \A k \in 0..19 :
               PowerOvflValue(k) = BigDivMod(BigSub(P2(96), BigOne), Pow10(k))[1]

\* A quotient that is an entry of PowerOvfl exactly, with low 32 bits that
\* decide, has been given the power of that entry.
C25_Witness ==
    /\ Called("SearchScale64")
    /\ args.rgulQuo = PowerOvflValue(7)
    /\ args.iScale = 0
    /\ ret.iCurScale = 7

\* Stepping through DecimalDiv comes to what the whole call returns.
DivLoopAgreesWithCall ==
    (pc \in {"returned", "faulted"} /\ op = "Div" /\ args.f = "DecimalDiv") =>
        With(DecimalDiv(pdecL, pdecR, Unwritten, shift0), LAMBDA c :
             /\ hr = c.hr
             /\ pdecRes = c.res
             /\ end = c.end)

\* A pass of the division loop that does not leave it raises iScale by at
\* least 1.
PassRaisesScale ==
    DivPass /\ args'.st.hr = "running" => args'.st.iScale >= args.st.iScale + 1

\* A pass of the loop over 10^8 that does not leave it lowers iScale by 8.
UnscaleLowersScale ==
    UnscalePass /\ pc' = "unscaling" => ret'.iScale = ret.iScale - 8

\* In the division loop iScale is at most 28 and at most 56 passes have
\* been made, so that no more than 57 are; in the loop over 10^8 iScale is
\* not negative.
LoopIsBounded ==
    /\ pc = "dividing" =>
           /\ args.st.iScale <= DEC_SCALE_MAX
           /\ args.st.passes <= 2 * DEC_SCALE_MAX
           /\ args.st.passes + 1 <= 57
    /\ pc = "unscaling" => ret.iScale >= 0

\* C26: every DecimalDiv call terminates: a pass of the division loop
\* leaves the loop or raises iScale by at least 1, iScale never exceeds 28,
\* no branch makes more than 57 passes, and the loop over 10^8 lowers
\* iScale by 8 on every pass it continues.  Termination is these bounds:
\* a loop whose every pass raises a number that stays at most 28, and a
\* loop whose every pass lowers by 8 a number that stays at least 0, end.
C26_DecimalDivTerminates ==
    /\ [][PassRaisesScale /\ UnscaleLowersScale]_vars
    /\ []LoopIsBounded

\* A call with a 96-bit divisor has made three passes of its division loop
\* and a pass of the loop over 10^8 that continued.
C26_Witness ==
    /\ pc = "unscaling"
    /\ args.bits = 96
    /\ args.st.passes >= 3
    /\ ret.iScale < args.st.iScale

\* lhs + rhs + carry, or lhs - rhs - borrow, modulo 2^64, and the carry or
\* borrow out of it.
ExactCarry(f, carry, lhs, rhs) ==
    IF f = "AddCarry64"
    THEN With(BigAdd(BigAdd(lhs, rhs), Big(carry)), LAMBDA sum :
              [res |-> BigModP2(sum, 64),
               carry |-> IF BigGe(sum, W64) THEN 1 ELSE 0])
    ELSE With(BigAdd(rhs, Big(carry)), LAMBDA sub :
              [res |-> BigModP2(BigSub(BigAdd(lhs, W64), sub), 64),
               carry |-> IF BigLt(lhs, sub) THEN 1 ELSE 0])

\* The call as the variant v compiles it.
CarryAs(v) ==
    IF args.f = "AddCarry64"
    THEN AddCarry64Variant(v, args.carry, args.lhs, args.rhs)
    ELSE SubBorrow64Variant(v, args.carry, args.lhs, args.rhs)

\* C27: every compiled variant of AddCarry64 (SubBorrow64) writes the low
\* 64 bits of lhs + rhs + carry (lhs - rhs - borrow) and returns the carry
\* (borrow) out as 0 or 1, and the __SIZEOF_INT128__ variant gives what the
\* pair of AddCarry32 (SubBorrow32) gives.
C27_EveryVariantGivesTheSum ==
    (Called("AddCarry64") \/ Called("SubBorrow64")) =>
        /\ ret.res = ExactCarry(args.f, args.carry, args.lhs, args.rhs).res
        /\ ret.carry = ExactCarry(args.f, args.carry, args.lhs, args.rhs).carry
        /\ CarryAs("int128") = CarryAs("pair")

\* C28: ShiftLeft128(lo, hi, s) returns the high 64 bits of the 128-bit
\* value hi:lo shifted left by s, for every s in 0..63; for s = 0 that is
\* hi unchanged.
C28_ShiftLeft128GivesHighHalf ==
    Called("ShiftLeft128") =>
        /\ ret.res = BigModP2(BigShr(BigShl(BigAdd(args.LowPart, BigShl(args.HighPart, 64)),
                                            args.Shift), 64), 64)
        /\ args.Shift = 0 => ret.res = args.HighPart

====
